---------------------------- MODULE Spec2Model ----------------------------
(***************************************************************************)
(* A model of the muonline-packet library: the frame kinds (kind.rs), the  *)
(* block transform (crypto.rs), frame assembly and parsing (packet.rs) and *)
(* the stateful stream codec (codec.rs).                                   *)
(*                                                                         *)
(* Bytes are naturals in 0..255 and byte buffers are sequences; the Rust   *)
(* index i of a buffer is the index i+1 here.                              *)
(***************************************************************************)
EXTENDS Integers, Sequences, FiniteSets, TLC

(***************************************************************************)
(* Machine arithmetic on u8 / u32 values.                                  *)
(***************************************************************************)

\* Bitwise operators on naturals, bit by bit.
RECURSIVE BitXor(_, _)
BitXor(a, b) ==
  IF a = 0 THEN b
  ELSE IF b = 0 THEN a
  ELSE ((a + b) % 2) + 2 * BitXor(a \div 2, b \div 2)

RECURSIVE BitAnd(_, _)
BitAnd(a, b) ==
  IF a = 0 \/ b = 0 THEN 0
  ELSE ((a % 2) * (b % 2)) + 2 * BitAnd(a \div 2, b \div 2)

RECURSIVE BitOr(_, _)
BitOr(a, b) ==
  IF a = 0 THEN b
  ELSE IF b = 0 THEN a
  ELSE (IF a % 2 = 1 \/ b % 2 = 1 THEN 1 ELSE 0) + 2 * BitOr(a \div 2, b \div 2)

RECURSIVE Pow2(_)
Pow2(n) == IF n = 0 THEN 1 ELSE 2 * Pow2(n - 1)

\* u8 << n and u8 >> n: the bits shifted out of the byte are lost.
Shl8(x, n) == (x * Pow2(n)) % 256
Shr8(x, n) == x \div Pow2(n)

\* u8::wrapping_add(1)
\* A faulty counter step: the counter stays at 255.
WrappingAdd1_saturating(c) == IF c = 255 THEN 255 ELSE c + 1

WrappingAdd1(c) == (c + 1) % 256

\* The u32 product a * b as two 16-bit limbs, for a < 2^18 and b < 2^16:
\* hi is not reduced, so that hi >= 2^16 tells that the product does not fit
\* a u32.
MulLimbs(a, b) ==
  LET a2 == a \div 65536
      a0 == a % 65536
      t1 == (a0 \div 256) * b
      t2 == (a0 % 256) * b
      s  == (t1 % 256) * 256 + (t2 % 65536)
  IN  [hi |-> (t1 \div 256) + (t2 \div 65536) + (s \div 65536) + a2 * b,
       lo |-> s % 65536]

\* Whether the u32 multiplication a * b overflows.
MulOverflows(a, b) == MulLimbs(a, b).hi >= 65536

\* (a * b, wrapped to 32 bits) % m, for m < 2^18.
ModLimbs(p, m) ==
  ((((((((p.hi % 65536) % m) * 256) % m) * 256) % m) + p.lo) % m)

MulModU32(a, b, m) == ModLimbs(MulLimbs(a, b), m)

(***************************************************************************)
(* kind.rs: PacketKind.  A kind is its wire byte.                          *)
(***************************************************************************)
C1 == 193
C2 == 194
C3 == 195
C4 == 196

PacketKind == {C1, C2, C3, C4}

\* PacketKind::from_byte: Some(kind) exactly for 0xC1..0xC4.
from_byte(byte) ==
  IF byte \in PacketKind THEN [some |-> TRUE, v |-> byte]
  ELSE [some |-> FALSE, v |-> 0]

\* PacketKind::max_size (the codec's max_size field is the variable below).
kind_max_size(kind) == IF kind \in {C1, C3} THEN 255 ELSE 65535

bytes(kind) == IF kind \in {C1, C3} THEN 1 ELSE 2

\* A faulty pairing: every encrypted frame is a C3 frame.
encrypted_always_c3(kind) ==
  IF kind = C1 THEN C3 ELSE IF kind = C2 THEN C3 ELSE kind

encrypted(kind) ==
  IF kind = C1 THEN C3 ELSE IF kind = C2 THEN C4 ELSE kind

decrypted(kind) ==
  IF kind = C3 THEN C1 ELSE IF kind = C4 THEN C2 ELSE kind

is_encrypted(kind) == kind = C3 \/ kind = C4

\* A faulty offset: the encrypted kinds keep the offset of the plain ones.
offset_same_for_all(kind) == bytes(kind) + 2

offset(kind) == bytes(kind) + (IF is_encrypted(kind) THEN 1 ELSE 2)

(***************************************************************************)
(* crypto.rs: the block transform.                                         *)
(***************************************************************************)
DECRYPT_MOD == 8
ENCRYPT_MOD == 11

\* A buffer of n zero bytes.
Zeros(n) == [i \in 1..n |-> 0]

\* Crypto::shift_bytes(out, size, delta).  Both loops read only elements
\* they have not written yet (the right shift walks downwards and reads
\* index - 1, the left shift walks upwards and reads index + 1), so each
\* loop is the simultaneous update below; the left shift then shifts
\* out[size - 1] once more.
shift_bytes(out, size, delta) ==
  IF delta = 0 THEN out
  ELSE IF delta > 0 THEN
    [i \in 1..Len(out) |->
       IF i = 1 THEN Shr8(out[1], delta)
       ELSE IF i <= size /\ size > 1
         THEN BitOr(Shl8(out[i - 1], 8 - delta), Shr8(out[i], delta))
       ELSE out[i]]
  ELSE
    LET d == -delta
        looped == [i \in 1..Len(out) |->
                     IF i <= size /\ size > 1
                       THEN BitOr(Shr8(out[i + 1], 8 - d), Shl8(out[i], d))
                     ELSE out[i]]
    IN  [looped EXCEPT ![size] = Shl8(looped[size], d)]

\* Crypto::hash_buffer: copies delta bits of input, from bit offset_in, into
\* out at bit offset_out (OR-ing), and returns out and the new bit offset.
hash_buffer(out, offset_out, input, offset_in, delta) ==
  LET size    == ((offset_in + delta - 1) \div 8) - (offset_in \div 8) + 2
      disp    == (offset_in + delta) % 8
      mod_in  == offset_in % 8
      mod_out == offset_out % 8
      mod_size == (size - 1) + (IF mod_out > mod_in THEN 1 ELSE 0)
      base    == offset_out \div 8
      Masked(copied) ==
        IF disp # 0
          THEN [copied EXCEPT ![size - 1] =
                  BitAnd(copied[size - 1], Shl8(255, 8 - disp))]
          ELSE copied
      Merged(buffer) ==
        [out |-> [i \in 1..Len(out) |->
                    IF i > base /\ i <= base + mod_size
                      THEN BitOr(out[i], buffer[i - base])
                    ELSE out[i]],
         pos |-> offset_out + delta]
  IN  Merged(shift_bytes(
               shift_bytes(
                 Masked([i \in 1..size |->
                           IF i < size THEN input[(offset_in \div 8) + i] ELSE 0]),
                 size - 1, -mod_in),
               size, mod_out))

\* Crypto::slice_with_padding
slice_with_padding(slice) ==
  [i \in 1..DECRYPT_MOD |-> IF i <= Len(slice) THEN slice[i] ELSE 0]

\* Crypto::align
align(value, alignment) == (value + alignment - 1) \div alignment

\* The key schedules, as Crypto::new loads them: encrypt[0..16] and
\* decrypt[0..16], addressed as table[row * 4 + col]; rows are the moduli,
\* the encryption keys, the decryption keys and the XOR keys.
CLIENT ==
  [encrypt |-> << 128079, 164742, 70235, 106898,
                  23489, 11911, 19816, 13647,
                  0, 0, 0, 0,
                  48413, 46165, 15171, 37433 >>,
   decrypt |-> << 128079, 164742, 70235, 106898,
                  0, 0, 0, 0,
                  31544, 2047, 57011, 10183,
                  48413, 46165, 15171, 37433 >>]

SERVER ==
  [encrypt |-> << 73326, 109989, 98843, 171058,
                  13169, 19036, 35482, 29587,
                  0, 0, 0, 0,
                  62004, 64409, 35374, 64599 >>,
   decrypt |-> << 73326, 109989, 98843, 171058,
                  0, 0, 0, 0,
                  18035, 30340, 24701, 11141,
                  62004, 64409, 35374, 64599 >>]

\* The little-endian bytes of a u32 below 2^24 (LittleEndian::write_u32).
write_u32(value) ==
  << value % 256, (value \div 256) % 256, (value \div 65536) % 256, 0 >>

\* LittleEndian::read_u32
read_u32(data) == data[1] + 256 * data[2] + 65536 * data[3] + 16777216 * data[4]

\* The fold of XOR over a buffer, from 0xF8.
RECURSIVE XorFold(_, _)
XorFold(acc, data) ==
  IF data = <<>> THEN acc ELSE XorFold(BitXor(acc, Head(data)), Tail(data))

\* The first loop of convert_8to11_bytes: enc holds the words of the rounds
\* before index, and crypt is the low half of the last of them.
RECURSIVE EncWords(_, _, _, _)
EncWords(key, input, index, enc) ==
  IF index = 4 THEN enc
  ELSE EncWords(key, input, index + 1,
         Append(enc,
           MulModU32(key[4 + index + 1],
             BitXor(input[2 * index + 1] + 256 * input[2 * index + 2],
               BitXor(key[12 + index + 1],
                 IF index = 0 THEN 0 ELSE enc[index] % 65536)),
             key[index + 1])))

\* The second loop of convert_8to11_bytes: enc[index] is combined with
\* enc[index + 1], which the loop has not written yet.
EncChain(key, enc) ==
  [i \in 1..4 |->
     IF i < 4 THEN BitXor(enc[i], BitXor(key[12 + i], enc[i + 1] % 65536))
     ELSE enc[i]]

\* The third loop of convert_8to11_bytes: each word is packed as 16 + 2
\* bits; st is the output block and the bit offset.
PackTail(st, value_as_bytes) == hash_buffer(st.out, st.pos, value_as_bytes, 22, 2)

PackWord(st, value_as_bytes) ==
  PackTail(hash_buffer(st.out, st.pos, value_as_bytes, 0, 16), value_as_bytes)

RECURSIVE PackWords(_, _, _)
PackWords(st, enc, index) ==
  IF index = 4 THEN st
  ELSE PackWords(PackWord(st, write_u32(enc[index + 1])), enc, index + 1)

\* A faulty trailer: the length of the padded block is written.
PackFinale_padded_length(st, xor, length) ==
  hash_buffer(st.out, st.pos,
              << BitXor(BitXor(xor, DECRYPT_MOD), 61), xor, 0, 0 >>, 0, 16)

\* The trailer of convert_8to11_bytes: the block length and the checksum.
PackFinale(st, xor, length) ==
  hash_buffer(st.out, st.pos, << BitXor(BitXor(xor, length), 61), xor, 0, 0 >>, 0, 16)

\* Crypto::convert_8to11_bytes: one block of at most 8 bytes to 11 bytes.
convert_8to11_bytes(key, slice) ==
  PackFinale(
    PackWords([out |-> Zeros(ENCRYPT_MOD), pos |-> 0],
              EncChain(key, EncWords(key, slice_with_padding(slice), 0, <<>>)), 0),
    XorFold(248, slice_with_padding(slice)),
    Len(slice)).out

\* The chunks of a buffer (slice::chunks): n bytes each, the last one the
\* rest.
Chunks(data, n) ==
  [i \in 1..((Len(data) + n - 1) \div n) |->
     SubSeq(data, (i - 1) * n + 1, IF i * n > Len(data) THEN Len(data) ELSE i * n)]

\* The concatenation of the sequences seqs[lo..hi] (Vec::extend per chunk).
RECURSIVE ConcatRange(_, _, _)
ConcatRange(seqs, lo, hi) ==
  IF lo > hi THEN <<>>
  ELSE IF lo = hi THEN seqs[lo]
  ELSE LET mid == (lo + hi) \div 2
       IN  ConcatRange(seqs, lo, mid) \o ConcatRange(seqs, mid + 1, hi)

Concat(seqs) == ConcatRange(seqs, 1, Len(seqs))

\* Crypto::encrypt
\* The loop of Crypto::encrypt over the chunks.
EncryptBlocks(key, chunks) ==
  Concat([i \in 1..Len(chunks) |-> convert_8to11_bytes(key, chunks[i])])

Crypto_encrypt(key, data) == EncryptBlocks(key, Chunks(data, DECRYPT_MOD))

\* The four 18-bit words of an 11-byte block (the first loop of
\* convert_11to8_bytes).
DecWords(slice) ==
  [index \in 1..4 |->
     read_u32(hash_buffer(
                hash_buffer(Zeros(4), 0, slice, 18 * (index - 1), 16).out,
                22, slice, 18 * (index - 1) + 16, 2).out)]

\* The second loop of convert_11to8_bytes, index running from 2 down to 0:
\* dec[index] is combined with dec[index + 1], which the loop has written
\* already.
RECURSIVE DecChain(_, _, _)
DecChain(key, dec, index) ==
  IF index < 0 THEN dec
  ELSE DecChain(key,
         [dec EXCEPT ![index + 1] =
            BitXor(dec[index + 1], BitXor(key[12 + index + 1], dec[index + 2] % 65536))],
         index - 1)

\* LittleEndian::write_u16 of the low 16 bits of a word.
write_u16(word) == << word % 256, (word \div 256) % 256 >>

\* The last loop of convert_11to8_bytes: the four plain 16-bit words, as
\* written with write_u16 (the low 16 bits of each).
RECURSIVE DecPlain(_, _, _, _)
DecPlain(key, dec, index, out) ==
  IF index = 4 THEN out
  ELSE DecPlain(key, dec, index + 1,
         out \o write_u16(
           BitXor(MulModU32(dec[index + 1], key[8 + index + 1], key[index + 1]),
             BitXor(key[12 + index + 1],
               IF index = 0 THEN 0 ELSE dec[index] % 65536))))

\* Whether a multiplication of the last loop of convert_11to8_bytes does
\* not fit a u32: a build with overflow checks panics there.
DecOverflows(key, dec) ==
  \E index \in 0..3 : MulOverflows(dec[index + 1], key[8 + index + 1])

\* Crypto::convert_11to8_bytes: one 11-byte block to its 8 plain bytes and
\* the length its trailer states, or the checksum error.
convert_11to8_bytes(key, slice, overflow_checks) ==
  LET Checked(overflows, out, finale) ==
        IF overflow_checks /\ overflows
          THEN [tag |-> "Panic", out |-> <<>>, size |-> 0]
        ELSE IF finale[2] = XorFold(248, out)
          THEN [tag |-> "Ok", out |-> out,
                size |-> BitXor(finale[1], BitXor(finale[2], 61))]
        ELSE [tag |-> "Err", out |-> <<>>, size |-> 0]
      Plain(dec) ==
        Checked(DecOverflows(key, dec), DecPlain(key, dec, 0, <<>>),
                hash_buffer(Zeros(4), 0, slice, 72, 16).out)
  IN  Plain(DecChain(key, DecWords(slice), 2))

\* Crypto::decrypt: the plain bytes of a buffer of 11-byte blocks, truncated
\* to the sum of the lengths the blocks state.  The assert_eq! on the length
\* panics in every build.
RECURSIVE SumSizes(_, _, _)
SumSizes(blocks, lo, hi) ==
  IF lo > hi THEN 0
  ELSE IF lo = hi THEN blocks[lo].size
  ELSE LET mid == (lo + hi) \div 2
       IN  SumSizes(blocks, lo, mid) + SumSizes(blocks, mid + 1, hi)

\* The loop of Crypto::decrypt: the blocks are converted in order and the
\* first one that fails ends the loop.
DecryptBlocks(key, chunks, overflow_checks) ==
  LET Failed(blocks) == { i \in 1..Len(blocks) : blocks[i].tag # "Ok" }
      Collected(blocks) ==
        IF Failed(blocks) # {}
          THEN blocks[CHOOSE i \in Failed(blocks) : \A j \in Failed(blocks) : i <= j]
          ELSE [tag |-> "Ok",
                out |-> Concat([i \in 1..Len(blocks) |-> blocks[i].out]),
                size |-> SumSizes(blocks, 1, Len(blocks))]
  IN  Collected([i \in 1..Len(chunks) |->
                   convert_11to8_bytes(key, chunks[i], overflow_checks)])

\* The end of Crypto::decrypt: Vec::truncate to the stated length.
Truncated(r) ==
  IF r.tag # "Ok" THEN [tag |-> r.tag, out |-> <<>>]
  ELSE [tag |-> "Ok",
        out |-> IF r.size < Len(r.out) THEN SubSeq(r.out, 1, r.size) ELSE r.out]

Crypto_decrypt(key, data, overflow_checks) ==
  IF Len(data) % ENCRYPT_MOD # 0 THEN [tag |-> "Panic", out |-> <<>>]
  ELSE Truncated(DecryptBlocks(key, Chunks(data, ENCRYPT_MOD), overflow_checks))

(***************************************************************************)
(* packet.rs: Packet.                                                      *)
(***************************************************************************)
\* A faulty exemption: another opcode is exempt.
XOR_SKIP_CODE_other == 244 + 1

XOR_SKIP_CODE == 244

\* Option values.
None == [some |-> FALSE, v |-> 0]
Some(x) == [some |-> TRUE, v |-> x]

\* Option<&[u8]>: the stream XOR cipher; Option<&PacketCrypto>: the scheme.
NoCipher == [some |-> FALSE, v |-> <<>>]
NoCrypto == [some |-> FALSE, v |-> CLIENT]

\* Packet::new
Packet_new(kind, code) == [kind |-> decrypted(kind), code |-> code, data |-> <<>>]

\* Packet::append
append(packet, slice) == [packet EXCEPT !.data = packet.data \o slice]

\* Packet::len
len(packet) == offset(packet.kind) + Len(packet.data)

\* WriteBytesExt::write_uint::<BigEndian>(n, nbytes), for nbytes in 1..2.
write_uint(n, nbytes) == IF nbytes = 1 THEN <<n>> ELSE << n \div 256, n % 256 >>

\* One step of the loop of Packet::xorcrypt.
xorstep(cipher, kind, code, data, index) ==
  LET other == IF index = 0 THEN code ELSE data[index]
      xori  == (offset(kind) + index) % Len(cipher)
  IN  [data EXCEPT ![index + 1] =
         BitXor(data[index + 1], BitXor(cipher[xori + 1], other))]

\* Packet::xorcrypt: iter is the sequence of indices in the order the
\* iterator yields them; data is updated in place at each step.  The loop
\* over iter is run as the loop over its first half followed by the loop
\* over its second half (the buffer keeps its length throughout).
RECURSIVE xorcrypt(_, _, _, _, _)
xorcrypt(cipher, kind, code, data, iter) ==
  IF Len(iter) = 0 THEN data
  ELSE IF Len(iter) = 1 THEN xorstep(cipher, kind, code, data, iter[1])
  ELSE
    LET half == Len(iter) \div 2
        done == xorcrypt(cipher, kind, code, data, SubSeq(iter, 1, half))
    IN  IF Len(done) = Len(data)
          THEN xorcrypt(cipher, kind, code, done, SubSeq(iter, half + 1, Len(iter)))
          ELSE data

\* 0..n (exclusive) and its reverse, as iterators.
Range(n) == [i \in 1..n |-> i - 1]
\* A faulty reverse iterator: it runs forward.
RangeRev_forward(n) == [i \in 1..n |-> i - 1]

RangeRev(n) == [i \in 1..n |-> n - i]

\* The bytes of to_bytes_ex before the block encryption (packet.rs
\* 135-158): the counter or the kind and size, the opcode, and the payload
\* under the XOR cipher.
PlainBytes(self, cipher, encryption) ==
  (IF encryption.some
     THEN << encryption.v.counter >>
     ELSE << self.kind >> \o write_uint(len(self), bytes(self.kind)))
  \o << self.code >>
  \o (IF self.code # XOR_SKIP_CODE /\ cipher.some
        THEN xorcrypt(cipher.v, self.kind, self.code, self.data,
                      Range(Len(self.data)))
        ELSE self.data)

\* A faulty size of the encrypted frame: the blocks are counted without the
\* header.
Sealed_counting_blocks(kind, enc) ==
  IF Len(enc) + offset(kind) > kind_max_size(kind)
    THEN [tag |-> "Panic", bytes |-> <<>>]
    ELSE [tag |-> "Ok",
          bytes |-> << kind >> \o write_uint(Len(enc), bytes(kind)) \o enc]

\* The encrypted frame of to_bytes_ex (packet.rs 160-174), with the
\* assertion on its size.
Sealed(kind, enc) ==
  IF Len(enc) + offset(kind) > kind_max_size(kind)
    THEN [tag |-> "Panic", bytes |-> <<>>]
    ELSE [tag |-> "Ok",
          bytes |-> << kind >> \o write_uint(Len(enc) + offset(kind), bytes(kind))
                      \o enc]

\* Packet::to_bytes_ex.  encryption is None or Some of [crypto, counter].
to_bytes_ex(self, cipher, encryption) ==
  IF len(self) > kind_max_size(self.kind) THEN [tag |-> "Panic", bytes |-> <<>>]
  ELSE IF encryption.some
    THEN Sealed(encrypted(self.kind),
                Crypto_encrypt(encryption.v.crypto.encrypt,
                               PlainBytes(self, cipher, encryption)))
  ELSE [tag |-> "Ok", bytes |-> PlainBytes(self, cipher, encryption)]

\* Packet::to_bytes
to_bytes(self) == to_bytes_ex(self, NoCipher, None)

\* The results of Packet::from_bytes_ex: Ok((packet, size, counter)), an
\* io::Error of a kind with a message, or a panic.
NoPacket == [kind |-> 0, code |-> 0, data |-> <<>>]
ParseErr(kind, msg) ==
  [tag |-> "Err", kind |-> kind, msg |-> msg, packet |-> NoPacket,
   size |-> 0, counter |-> None]
ParsePanic ==
  [tag |-> "Panic", kind |-> "", msg |-> "", packet |-> NoPacket,
   size |-> 0, counter |-> None]
ParseOk(packet, size, counter) ==
  [tag |-> "Ok", kind |-> "", msg |-> "", packet |-> packet,
   size |-> size, counter |-> counter]

\* A faulty tail of from_bytes_ex: the size of the parsed content is
\* reported in place of the size of the frame.
ParseBody_content_size(kind, inner, position, size, original_size, crypto_count, cipher) ==
  IF position >= Len(inner)
    THEN ParseErr("UnexpectedEof", "failed to fill whole buffer")
  ELSE IF position + 1 > size THEN ParsePanic
  ELSE
    LET code == inner[position + 1]
        raw  == SubSeq(inner, position + 2, size)
        data == IF code # XOR_SKIP_CODE /\ cipher.some
                  THEN xorcrypt(cipher.v, decrypted(kind), code, raw,
                                RangeRev(Len(raw)))
                  ELSE raw
    IN  ParseOk([kind |-> decrypted(kind), code |-> code, data |-> data],
                size, crypto_count)

\* A faulty tail of from_bytes_ex: a byte is skipped before the opcode.
ParseBody_skipping_byte(kind, inner, position, size, original_size, crypto_count, cipher) ==
  IF position + 1 >= Len(inner)
    THEN ParseErr("UnexpectedEof", "failed to fill whole buffer")
  ELSE IF position + 2 > size THEN ParsePanic
  ELSE
    LET code == inner[position + 2]
        raw  == SubSeq(inner, position + 3, size)
        data == IF code # XOR_SKIP_CODE /\ cipher.some
                  THEN xorcrypt(cipher.v, decrypted(kind), code, raw,
                                RangeRev(Len(raw)))
                  ELSE raw
    IN  ParseOk([kind |-> decrypted(kind), code |-> code, data |-> data],
                original_size, crypto_count)

\* The tail of from_bytes_ex (packet.rs 70-89): the opcode is read at
\* position of inner, the payload is inner[position + 1 .. size], and the
\* XOR cipher is undone in reverse order.
ParseBody(kind, inner, position, size, original_size, crypto_count, cipher) ==
  IF position >= Len(inner)
    THEN ParseErr("UnexpectedEof", "failed to fill whole buffer")
  ELSE IF position + 1 > size THEN ParsePanic
  ELSE
    LET code == inner[position + 1]
        raw  == SubSeq(inner, position + 2, size)
        data == IF code # XOR_SKIP_CODE /\ cipher.some
                  THEN xorcrypt(cipher.v, decrypted(kind), code, raw,
                                RangeRev(Len(raw)))
                  ELSE raw
    IN  ParseOk([kind |-> decrypted(kind), code |-> code, data |-> data],
                original_size, crypto_count)

\* A faulty read of the size field: little endian.
read_uint_le(input, nbytes) ==
  IF nbytes = 1 THEN input[2] ELSE input[2] + 256 * input[3]

\* ReadBytesExt::read_uint::<BigEndian>(nbytes) after the kind byte: the
\* size field of a frame.
read_uint(input, nbytes) ==
  IF nbytes = 1 THEN input[2] ELSE 256 * input[2] + input[3]

\* The encrypted branch of from_bytes_ex after the call of decrypt
\* (packet.rs 54-59): the first decrypted byte is the counter.
ParseDecrypted(kind, dec, original_size, cipher) ==
  IF dec.tag = "Panic" THEN ParsePanic
  ELSE IF dec.tag = "Err" THEN ParseErr("InvalidData", "Incorrect data hash")
  ELSE IF Len(dec.out) < 1
    THEN ParseErr("UnexpectedEof", "failed to fill whole buffer")
  ELSE ParseBody(kind, dec.out, 1, Len(dec.out), original_size,
                 Some(dec.out[1]), cipher)

\* Packet::from_bytes_ex
from_bytes_ex(input, cipher, decryption, overflow_checks) ==
  IF Len(input) < 1 THEN ParseErr("UnexpectedEof", "failed to fill whole buffer")
  ELSE IF ~from_byte(input[1]).some THEN ParseErr("InvalidData", "not a packet")
  ELSE
    LET kind == from_byte(input[1]).v
        nb   == bytes(kind)
    IN  IF Len(input) < 1 + nb
          THEN ParseErr("UnexpectedEof", "failed to fill whole buffer")
        ELSE
          LET size == read_uint(input, nb)
          IN  IF Len(input) < size THEN ParseErr("UnexpectedEof", "missing data")
              ELSE IF is_encrypted(kind) THEN
                IF ~decryption.some
                  THEN ParseErr("Other", "missing decryption for packet")
                ELSE IF offset(kind) > size THEN ParsePanic
                ELSE ParseDecrypted(kind,
                       Crypto_decrypt(decryption.v.decrypt,
                                      SubSeq(input, offset(kind) + 1, size),
                                      overflow_checks),
                       size, cipher)
              ELSE ParseBody(kind, input, 1 + nb, size, size, None, cipher)

\* Packet::from_bytes
from_bytes(input) == from_bytes_ex(input, NoCipher, NoCrypto, FALSE)

(***************************************************************************)
(* lib.rs: the XOR cipher shipped with the library.                        *)
(***************************************************************************)
XOR_CIPHER ==
  << 231, 109, 58, 137, 188, 178, 159, 115, 35, 168, 254, 182, 73, 93, 57, 93,
     138, 203, 99, 141, 234, 125, 43, 95, 195, 177, 233, 131, 41, 81, 232, 86 >>

(***************************************************************************)
(* codec.rs: PacketCodecState and PacketCodec.                             *)
(***************************************************************************)

\* PacketCodecStateBuilder::build: the counter starts at 0.
build(cipher, crypto) == [cipher |-> cipher, crypto |-> crypto, counter |-> 0]

\* A faulty encode: the counter advances only when a frame was encrypted.
encode_counting_encrypted(state, packet, out) ==
  LET Written(r) ==
        IF r.tag = "Panic"
          THEN [tag |-> "Panic", state |-> state, output |-> out]
          ELSE [tag |-> "Ok",
                state |-> IF state.crypto.some
                            THEN [state EXCEPT !.counter = WrappingAdd1(state.counter)]
                            ELSE state,
                output |-> out \o r.bytes]
  IN  Written(to_bytes_ex(packet, state.cipher,
                IF state.crypto.some
                  THEN Some([crypto |-> state.crypto.v, counter |-> state.counter])
                  ELSE None))

\* <PacketCodec as Encoder>::encode: the new send state and output buffer;
\* a failed assertion of to_bytes_ex unwinds before either is touched.  The
\* trace! line serializes the packet once more without cipher or crypto,
\* which asserts nothing that to_bytes_ex has not asserted already.
encode(state, packet, out) ==
  LET Written(r) ==
        IF r.tag = "Panic"
          THEN [tag |-> "Panic", state |-> state, output |-> out]
          ELSE [tag |-> "Ok",
                state |-> [state EXCEPT !.counter = WrappingAdd1(state.counter)],
                output |-> out \o r.bytes]
  IN  Written(to_bytes_ex(packet, state.cipher,
                IF state.crypto.some
                  THEN Some([crypto |-> state.crypto.v, counter |-> state.counter])
                  ELSE None))

\* The parser was not called.
NotParsed ==
  [tag |-> "None", kind |-> "", msg |-> "", packet |-> NoPacket,
   size |-> 0, counter |-> None]

\* The values decode returns: Ok(None), Ok(Some(packet)), Err(error), or a
\* panic, with the receive state and the input buffer it leaves, and with
\* what the parser returned to it.
DecodeResult(tag, kind, msg, packet, state, in) ==
  [tag |-> tag, kind |-> kind, msg |-> msg, packet |-> packet,
   state |-> state, input |-> in, parsed |-> NotParsed]

\* A faulty and_then closure: on a counter mismatch the receive counter is
\* set to follow the counter of the frame.
on_parsed_resync(state, in, r) ==
  LET rest == SubSeq(in, r.size + 1, Len(in))
  IN  IF r.counter.some /\ state.counter # r.counter.v
        THEN DecodeResult("Err", "Other",
               "invalid decryption counter " \o ToString(r.counter.v)
                 \o ", expected " \o ToString(state.counter),
               NoPacket, [state EXCEPT !.counter = WrappingAdd1(r.counter.v)], rest)
      ELSE DecodeResult("Some", "", "", r.packet,
             IF r.counter.some
               THEN [state EXCEPT !.counter = WrappingAdd1(state.counter)]
               ELSE state,
             rest)

\* The and_then closure of decode: the frame is consumed, then its counter
\* is compared with the receive counter.
on_parsed(state, in, r) ==
  LET rest == SubSeq(in, r.size + 1, Len(in))
  IN  IF r.counter.some /\ state.counter # r.counter.v
        THEN DecodeResult("Err", "Other",
               "invalid decryption counter " \o ToString(r.counter.v)
                 \o ", expected " \o ToString(state.counter),
               NoPacket, state, rest)
      ELSE DecodeResult("Some", "", "", r.packet,
             IF r.counter.some
               THEN [state EXCEPT !.counter = WrappingAdd1(state.counter)]
               ELSE state,
             rest)

\* A faulty or_else closure: the bytes received so far are dropped when data
\* is missing.
on_error_consuming(d) ==
  IF d.kind = "UnexpectedEof"
    THEN DecodeResult("None", "", "", NoPacket, d.state, <<>>)
    ELSE d

\* A faulty or_else closure: a frame that does not parse is waited for, too.
on_error_waiting(d) ==
  IF d.kind \in {"UnexpectedEof", "InvalidData"}
    THEN DecodeResult("None", "", "", NoPacket, d.state, d.input)
    ELSE d

\* The or_else closure of decode, given the error d that the parser or the
\* and_then closure returned.
on_error(d) ==
  IF d.kind = "UnexpectedEof"
    THEN DecodeResult("None", "", "", NoPacket, d.state, d.input)
    ELSE d

\* <PacketCodec as Decoder>::decode
decode(state, cap, in, overflow_checks) ==
  IF Len(in) = 0 THEN DecodeResult("None", "", "", NoPacket, state, in)
  ELSE IF cap.some /\ Len(in) > cap.v
    THEN DecodeResult("Err", "Other", "max packet size exceeded", NoPacket, state, in)
  ELSE
    LET Chained(d) == IF d.tag = "Err" THEN on_error(d) ELSE d
        Returned(r) ==
          [Chained(IF r.tag = "Ok" THEN on_parsed(state, in, r)
                   ELSE DecodeResult(r.tag, r.kind, r.msg, NoPacket, state, in))
             EXCEPT !.parsed = r]
    IN  Returned(from_bytes_ex(in, state.cipher, state.crypto, overflow_checks))

(***************************************************************************)
(* The state: one connection.  encrypt is the send state of the sending    *)
(* codec and output the buffer it encodes into; decrypt and max_size are   *)
(* the receive state and the cap of the receiving codec and input the      *)
(* buffer it decodes from.  result is what the last codec call returned    *)
(* and pre what the call was given; net is the transport's bookkeeping.    *)
(***************************************************************************)
VARIABLES encrypt, decrypt, max_size, overflow_checks, output, input,
          result, pre, net

vars == << encrypt, decrypt, max_size, overflow_checks, output, input,
           result, pre, net >>

codec == << encrypt, decrypt, max_size, overflow_checks >>

NoCall == [op |-> "none", tag |-> "", kind |-> "", msg |-> "", packet |-> NoPacket]
NoPre  == [input |-> <<>>, output |-> <<>>, send |-> 0, recv |-> 0, packet |-> NoPacket]

\* The codec call encode(packet, output).
Encode(packet) ==
  LET r == encode(encrypt, packet, output)
  IN  /\ encrypt' = r.state
      /\ output' = r.output
      /\ result' = [op |-> "encode", tag |-> r.tag, kind |-> "", msg |-> "",
                    packet |-> NoPacket]
      /\ pre' = [input |-> input, output |-> output, send |-> encrypt.counter,
                 recv |-> decrypt.counter, packet |-> packet]
      /\ UNCHANGED << decrypt, max_size, overflow_checks, input >>

\* The codec call decode(input).
Decode ==
  LET r == decode(decrypt, max_size, input, overflow_checks)
  IN  /\ decrypt' = r.state
      /\ input' = r.input
      /\ result' = [op |-> "decode", tag |-> r.tag, kind |-> r.kind, msg |-> r.msg,
                    packet |-> r.packet, parsed |-> r.parsed]
      /\ pre' = [input |-> input, output |-> output, send |-> encrypt.counter,
                 recv |-> decrypt.counter, packet |-> NoPacket]
      /\ UNCHANGED << encrypt, max_size, overflow_checks, output >>

\* The transport moves the first k bytes of the sender's output to the end
\* of the receiver's input.
Deliver(k) ==
  /\ k >= 1 /\ k <= Len(output)
  /\ input' = input \o SubSeq(output, 1, k)
  /\ output' = SubSeq(output, k + 1, Len(output))
  /\ result' = NoCall /\ pre' = NoPre
  /\ UNCHANGED codec

\* A byte that no codec sent arrives.
Inject(b) ==
  /\ input' = Append(input, b)
  /\ result' = NoCall /\ pre' = NoPre
  /\ UNCHANGED << codec, output >>

\* A bit of a byte in transit flips.
Corrupt(pos, bit) ==
  /\ pos >= 1 /\ pos <= Len(output)
  /\ output' = [output EXCEPT ![pos] = BitXor(output[pos], Pow2(bit))]
  /\ result' = NoCall /\ pre' = NoPre
  /\ UNCHANGED << codec, input >>

(***************************************************************************)
(* Spec: a connection under an arbitrary transport.  The sender encodes a  *)
(* few packets; the transport delivers the bytes in chunks, may flip a bit *)
(* of a byte in transit and may deliver a byte nobody sent; the receiver   *)
(* decodes whenever it likes.                                              *)
(***************************************************************************)

\* Bounds of the exploration.
MaxEncodes == 2
MaxPartial == 2
MaxFaults  == 1
CapSmall   == 8

\* A payload of n bytes.
Payload(n) == [i \in 1..n |-> (7 * i + 3) % 256]

\* The longest payload of a kind (Packet::len() = max_size).
MaxPayload(kind) == kind_max_size(kind) - offset(kind)

\* The longest payload whose block-encrypted frame still fits the encrypted
\* kind: 11 * ceil((n + 2) / 8) + offset <= max_size.
MaxCryptPayload(kind) ==
  LET k == encrypted(kind)
      blocks == (kind_max_size(k) - offset(k)) \div ENCRYPT_MOD
  IN  blocks * DECRYPT_MOD - 2

Pkt(kind, code, data) == append(Packet_new(kind, code), data)

\* The packets the sender encodes: the packets of the tests of lib.rs, an
\* empty one, and packets at and beyond the capacity of their frame.
TestPackets ==
  { Pkt(C1, 244, <<3, 0, 0>>),
    Pkt(C1, 169, <<0, 0, 1>>),
    Pkt(C2, 0, <<>>),
    Pkt(C1, 169, Payload(MaxCryptPayload(C1))),
    Pkt(C1, 169, Payload(MaxCryptPayload(C1) + 1)),
    Pkt(C1, 169, Payload(MaxPayload(C1))),
    Pkt(C1, 169, Payload(MaxPayload(C1) + 1)) }

\* The transport's bookkeeping.  emitted, delivered and accepted count the
\* frames the sender encoded, the transport handed to the receiver and the
\* receiver returned a packet for; inflight, arrived and held are the frames
\* in output, in input and held back by the transport (each with its
\* emission index and its packet) and decoded is the frame the last decode
\* was given; lost counts the frames the transport dropped; inorder tells
\* that the frames delivered so far are the frames 0, 1, 2, ... in this
\* order; mismatch that some decode failed on the counter of a frame and
\* left the receive counter alone; settled that a frame was decoded after
\* the transport dropped or displaced one; faults counts the bytes injected
\* or corrupted.
NoNet ==
  [emitted |-> 0, delivered |-> 0, accepted |-> 0, lost |-> 0,
   inflight |-> <<>>, arrived |-> <<>>, held |-> <<>>, decoded |-> <<>>,
   inorder |-> TRUE, mismatch |-> FALSE, settled |-> FALSE, faults |-> 0]

\* The connections explored: the send state of the sender, the receive
\* state of the receiver, the receiver's cap, and whether the build checks
\* integer overflow.  In "bare" the receiver has no schedule and in "other"
\* the schedule of the other scheme.
Conn(cipher, sender, receiver, cap, checks) ==
  [enc |-> build(cipher, sender), dec |-> build(cipher, receiver),
   cap |-> cap, checks |-> checks]

Connections ==
  { Conn(NoCipher, NoCrypto, NoCrypto, None, FALSE),
    Conn(Some(XOR_CIPHER), NoCrypto, NoCrypto, None, TRUE),
    Conn(NoCipher, Some(CLIENT), Some(CLIENT), None, TRUE),
    Conn(Some(XOR_CIPHER), Some(SERVER), Some(SERVER), None, FALSE),
    Conn(NoCipher, Some(CLIENT), NoCrypto, None, TRUE),
    Conn(NoCipher, Some(CLIENT), Some(SERVER), None, FALSE),
    Conn(NoCipher, Some(CLIENT), Some(SERVER), None, TRUE),
    Conn(NoCipher, NoCrypto, NoCrypto, Some(CapSmall), FALSE),
    Conn(NoCipher, Some(SERVER), Some(SERVER), Some(CapSmall), TRUE) }

Init ==
  /\ \E c \in Connections :
       /\ encrypt = c.enc /\ decrypt = c.dec
       /\ max_size = c.cap /\ overflow_checks = c.checks
  /\ output = <<>>
  /\ input = <<>>
  /\ result = NoCall
  /\ pre = NoPre
  /\ net = NoNet

\* The chunk sizes the transport delivers: a single byte (while the input
\* holds less than MaxPartial bytes), all but the last byte, or everything.
ChunkSizes ==
  (IF Len(input) < MaxPartial THEN {1} ELSE {}) \cup { Len(output) - 1, Len(output) }

\* The sender encodes the next packet once the bytes of the last one have
\* been delivered and decoded.
Next ==
  \/ \E p \in TestPackets :
       /\ encrypt.counter < MaxEncodes /\ output = <<>> /\ input = <<>>
       /\ Encode(p) /\ UNCHANGED net
  \/ Decode /\ UNCHANGED net
  \/ \E k \in ChunkSizes : Deliver(k) /\ UNCHANGED net
  \/ \E b \in {0, C3} :
       /\ net.faults < MaxFaults /\ output = <<>>
       /\ Inject(b)
       /\ net' = [net EXCEPT !.faults = @ + 1]
  \/ \E pos \in {3, Len(output) - 1, Len(output)} :
       /\ net.faults < MaxFaults /\ input = <<>>
       /\ Corrupt(pos, 0)
       /\ net' = [net EXCEPT !.faults = @ + 1]

Spec == Init /\ [][Next]_vars

(***************************************************************************)
(* Properties of a codec call, stated on what the call was given (pre) and *)
(* what it returned (result) and left behind.                              *)
(***************************************************************************)

\* The input buffer is empty, or starts with a kind byte and holds fewer
\* bytes than the kind and size field take or than the size field claims.
ShortRead(in) ==
  \/ Len(in) = 0
  \/ /\ in[1] \in PacketKind
     /\ \/ Len(in) < 1 + bytes(in[1])
        \/ Len(in) < read_uint(in, bytes(in[1]))

\* The buffer holds more bytes than the cap of the receiving codec.
OverCap(in) == max_size.some /\ Len(in) > max_size.v

\* What the parser returned to the last decode.
Parsed == result.parsed

\* The last decode left the buffer and both counters as they were.
DecodeLeftState ==
  /\ input = pre.input
  /\ encrypt.counter = pre.send
  /\ decrypt.counter = pre.recv

\* C3 as claimed: on a short read decode returns None, never an error, and
\* leaves the buffer and both counters alone.
C3_ShortReadReturnsNone ==
  (result.op = "decode" /\ ShortRead(pre.input))
    => (result.tag = "None" /\ DecodeLeftState)

\* Sender and receiver have the same cipher and schedule, and no byte was
\* injected or corrupted.
InStep ==
  /\ encrypt.cipher = decrypt.cipher /\ encrypt.crypto = decrypt.crypto
  /\ net.faults = 0

\* C3, amended: on a short read decode returns None and leaves the buffer and
\* both counters alone, unless a max size is configured and the buffer holds
\* more bytes than it (then the buffer and the counters are left alone as
\* well, but the call fails with "max packet size exceeded").  Where it
\* returns None, the same call on the same buffer returns None again, and the
\* call on the buffer with the rest of the frame returns the packet (if the
\* frame is one the sender emitted for this receiver and fits the cap).
C3_ShortReadIsSoft ==
  (result.op = "decode" /\ ShortRead(pre.input))
    => /\ DecodeLeftState
       /\ IF OverCap(pre.input)
            THEN result.tag = "Err" /\ result.msg = "max packet size exceeded"
            ELSE /\ result.tag = "None"
                 /\ LET again == decode(decrypt, max_size, input, overflow_checks)
                    IN  again.tag = "None" /\ again.input = input /\ again.state = decrypt
                 /\ (input # <<>> /\ InStep /\ ~OverCap(input \o output)) =>
                      LET later == decode(decrypt, max_size, input \o output, overflow_checks)
                      IN  /\ later.tag = "Some" /\ later.input = <<>>
                          /\ later.packet.kind = decrypted(input[1])

\* A decode was given a buffer with a whole header and part of the frame it
\* announces, and returned None.
C3_Witness ==
  /\ result.op = "decode" /\ result.tag = "None"
  /\ pre.input # <<>>
  /\ Len(pre.input) >= 1 + bytes(pre.input[1])
  /\ ShortRead(pre.input)
  /\ input = pre.input

\* C4: when the parser succeeds, it reports the value of the size field of
\* the frame, and decode removes exactly that many bytes from the front of
\* the buffer and leaves the bytes behind them in place.
C4_ConsumesSizeField ==
  (result.op = "decode" /\ pre.input # <<>> /\ ~OverCap(pre.input))
    => LET r == Parsed
           n == read_uint(pre.input, bytes(pre.input[1]))
       IN  r.tag = "Ok" =>
             /\ r.size = n
             /\ n <= Len(pre.input)
             /\ input = SubSeq(pre.input, n + 1, Len(pre.input))

\* The 13-byte C3 frame of the tests followed by a zero byte was decoded: 13
\* bytes were consumed and the zero byte is left.
C4_Witness ==
  /\ result.op = "decode" /\ result.tag = "Some"
  /\ pre.input = << 195, 13, 227, 179, 83, 154, 79, 200, 50, 125, 4, 55, 15, 0 >>
  /\ result.packet = Pkt(C1, 244, <<3, 0, 0>>)
  /\ input = << 0 >>

\* The last encode returned Ok, appended one frame of the given packet to
\* the output buffer (its kind byte, then the size field that counts the
\* appended bytes) and advanced the send counter.
EncodeSucceeded ==
  LET n == Len(pre.output)
      frame == SubSeq(output, n + 1, Len(output))
      kind == IF encrypt.crypto.some THEN encrypted(pre.packet.kind) ELSE pre.packet.kind
  IN  /\ result.tag = "Ok"
      /\ Len(output) > n + 1
      /\ SubSeq(output, 1, n) = pre.output
      /\ frame[1] = kind
      /\ read_uint(frame, bytes(kind)) = Len(frame)
      /\ encrypt.counter = (pre.send + 1) % 256
      /\ decrypt.counter = pre.recv

\* C9 as claimed: encode succeeds for every packet whose framed length is at
\* most the max size of its kind.
C9_EncodeNeverFails ==
  (result.op = "encode" /\ len(pre.packet) <= kind_max_size(pre.packet.kind))
    => EncodeSucceeded

\* The size of the block-encrypted frame of a packet: 11 bytes for every 8
\* bytes of counter, code and payload, after the header of the encrypted kind.
EncryptedSize(packet) ==
  ENCRYPT_MOD * align(Len(packet.data) + 2, DECRYPT_MOD) + offset(encrypted(packet.kind))

\* C9, amended: encode succeeds for every packet whose framed length is at
\* most the max size of its kind and, when the send state has a crypto
\* schedule, whose block-encrypted frame is at most the max size of the
\* encrypted kind; for every other packet it panics and changes nothing.
C9_EncodeFailsOnlyOverCapacity ==
  result.op = "encode" =>
    IF /\ len(pre.packet) <= kind_max_size(pre.packet.kind)
       /\ encrypt.crypto.some =>
            EncryptedSize(pre.packet) <= kind_max_size(encrypted(pre.packet.kind))
      THEN EncodeSucceeded
      ELSE /\ result.tag = "Panic"
           /\ output = pre.output
           /\ encrypt.counter = pre.send

\* An encode with a crypto schedule succeeded for the longest payload whose
\* encrypted frame fits.
C9_Witness ==
  /\ result.op = "encode" /\ result.tag = "Ok"
  /\ encrypt.crypto.some
  /\ Len(pre.packet.data) = MaxCryptPayload(pre.packet.kind)
  /\ Len(output) = kind_max_size(encrypted(pre.packet.kind))

\* C10: decode returns None for the parser's UnexpectedEof and for no other
\* error of the parser; every other error is returned as it is, with no
\* packet, the buffer and the counters left alone.  A leading byte that is no
\* kind gives InvalidData "not a packet", a whole encrypted frame with no
\* schedule in the receive state gives Other "missing decryption for packet"
\* and a block whose checksum does not match gives InvalidData "Incorrect
\* data hash".
C10_ParseErrorsPropagate ==
  (result.op = "decode" /\ pre.input # <<>> /\ ~OverCap(pre.input))
    => LET in == pre.input
           r == Parsed
           whole == /\ in[1] \in PacketKind
                    /\ Len(in) >= 1 + bytes(in[1])
                    /\ Len(in) >= read_uint(in, bytes(in[1]))
           blocks == SubSeq(in, offset(in[1]) + 1, read_uint(in, bytes(in[1])))
       IN  /\ r.tag = "Err" =>
                IF r.kind = "UnexpectedEof"
                  THEN result.tag = "None"
                  ELSE /\ result.tag = "Err"
                       /\ result.kind = r.kind /\ result.msg = r.msg
                       /\ result.packet = NoPacket
                       /\ DecodeLeftState
           /\ result.tag = "None" => (r.tag = "Err" /\ r.kind = "UnexpectedEof")
           /\ in[1] \notin PacketKind =>
                /\ result.tag = "Err" /\ result.kind = "InvalidData"
                /\ result.msg = "not a packet"
                /\ DecodeLeftState
           /\ (whole /\ is_encrypted(in[1]) /\ ~decrypt.crypto.some) =>
                /\ result.tag = "Err" /\ result.kind = "Other"
                /\ result.msg = "missing decryption for packet"
                /\ DecodeLeftState
           /\ (/\ whole /\ is_encrypted(in[1]) /\ decrypt.crypto.some
               /\ read_uint(in, bytes(in[1])) >= offset(in[1])
               /\ Crypto_decrypt(decrypt.crypto.v.decrypt, blocks, overflow_checks).tag = "Err") =>
                /\ result.tag = "Err" /\ result.kind = "InvalidData"
                /\ result.msg = "Incorrect data hash"
                /\ result.packet = NoPacket
                /\ DecodeLeftState

\* A decode of a whole encrypted frame failed on the checksum of a block.
C10_Witness ==
  /\ result.op = "decode" /\ result.tag = "Err"
  /\ result.kind = "InvalidData" /\ result.msg = "Incorrect data hash"
  /\ is_encrypted(pre.input[1])
  /\ input = pre.input /\ decrypt.counter = pre.recv

(***************************************************************************)
(* SpecWalk: the counter walk.  The sender encodes the packets             *)
(* WalkPacket(0), WalkPacket(1), ... one at a time, both ends with the     *)
(* same schedule and fresh counters; the transport hands each frame to the *)
(* receiver whole, or drops it, or holds it back and hands it over later.  *)
(***************************************************************************)

\* Bounds of the walk: the number of frames the sender emits (more than 256,
\* for the counter to wrap), and the last emission index at which the
\* transport starts to drop or hold frames.
WalkFrames == 258
MaxDisorderStart == 1

\* The i-th packet of the sender; no two of the first 65536 are equal.
WalkPacket(i) ==
  Pkt(IF i % 2 = 0 THEN C1 ELSE C2, 169, << i % 256, (i \div 256) % 256 >>)

WalkConnections ==
  { Conn(NoCipher, Some(CLIENT), Some(CLIENT), None, TRUE),
    Conn(Some(XOR_CIPHER), Some(SERVER), Some(SERVER), None, FALSE) }

InitWalk ==
  /\ \E c \in WalkConnections :
       /\ encrypt = c.enc /\ decrypt = c.dec
       /\ max_size = c.cap /\ overflow_checks = c.checks
  /\ output = <<>>
  /\ input = <<>>
  /\ result = NoCall
  /\ pre = NoPre
  /\ net = NoNet

\* The sender encodes its next packet, once the last frame has left the
\* buffers.
Send ==
  /\ net.emitted < WalkFrames /\ ~net.settled
  /\ output = <<>> /\ input = <<>>
  /\ Encode(WalkPacket(net.emitted))
  /\ net' = [net EXCEPT !.emitted = @ + 1,
               !.inflight = << [seq |-> net.emitted, packet |-> WalkPacket(net.emitted)] >>]

\* The transport hands the frame in output to the receiver.
Arrive ==
  /\ output # <<>>
  /\ Deliver(Len(output))
  /\ net' = [net EXCEPT !.inflight = <<>>, !.arrived = net.inflight,
               !.delivered = @ + 1,
               !.inorder = @ /\ net.inflight[1].seq = net.delivered]

\* The receiver decodes the frame in input.
Receive ==
  /\ input # <<>>
  /\ Decode
  /\ net' = [net EXCEPT !.arrived = <<>>, !.decoded = net.arrived,
               !.accepted = IF result'.tag = "Some" THEN @ + 1 ELSE @,
               !.mismatch = @ \/ /\ result'.tag = "Err" /\ result'.kind = "Other"
                                 /\ result'.msg = "invalid decryption counter "
                                      \o ToString(net.arrived[1].seq % 256)
                                      \o ", expected " \o ToString(decrypt.counter)
                                 /\ decrypt'.counter = decrypt.counter,
               !.settled = net.lost > 0 \/ ~net.inorder]

\* The transport drops the frame in output.
Lose ==
  /\ output # <<>>
  /\ net.held = <<>>
  /\ net.inflight[1].seq <= MaxDisorderStart \/ net.lost > 0
  /\ output' = <<>>
  /\ result' = NoCall /\ pre' = NoPre
  /\ net' = [net EXCEPT !.inflight = <<>>, !.lost = @ + 1]
  /\ UNCHANGED << codec, input >>

\* The transport holds the frame in output back.
Hold ==
  /\ output # <<>> /\ net.held = <<>> /\ net.lost = 0
  /\ net.inflight[1].seq <= MaxDisorderStart
  /\ output' = <<>>
  /\ result' = NoCall /\ pre' = NoPre
  /\ net' = [net EXCEPT !.inflight = <<>>,
               !.held = << [seq |-> net.inflight[1].seq,
                            packet |-> net.inflight[1].packet,
                            bytes |-> output] >>]
  /\ UNCHANGED << codec, input >>

\* The transport hands the frame it held back to the receiver.
Release ==
  /\ net.held # <<>> /\ output = <<>> /\ input = <<>>
  /\ input' = net.held[1].bytes
  /\ result' = NoCall /\ pre' = NoPre
  /\ net' = [net EXCEPT !.held = <<>>,
               !.arrived = << [seq |-> net.held[1].seq, packet |-> net.held[1].packet] >>,
               !.delivered = @ + 1,
               !.inorder = @ /\ net.held[1].seq = net.delivered]
  /\ UNCHANGED << codec, output >>

NextWalk == Send \/ Arrive \/ Receive \/ Lose \/ Hold \/ Release

SpecWalk == InitWalk /\ [][NextWalk]_vars

\* C1: the i-th frame the sender emits is an encrypted frame that carries
\* the counter i mod 256, and a receiver with the matching schedule that is
\* given the frames 0, 1, 2, ... in this order returns the i-th packet for
\* the i-th frame, whatever the number of frames.
C1_CounterWalk ==
  /\ result.op = "encode" =>
       /\ result.tag = "Ok"
       /\ is_encrypted(output[1])
       /\ LET r == from_bytes_ex(output, encrypt.cipher, encrypt.crypto, overflow_checks)
          IN  r.tag = "Ok" /\ r.counter = Some((net.emitted - 1) % 256)
  /\ (result.op = "decode" /\ net.inorder) =>
       /\ result.tag = "Some"
       /\ net.decoded[1].seq = net.accepted - 1
       /\ result.packet = WalkPacket(net.accepted - 1)
       /\ decrypt.counter = net.accepted % 256
       /\ input = <<>>

\* The receiver accepted the frame 256, the first one that carries the
\* counter 0 again, after the frames 0..255.
C1_Witness ==
  /\ result.op = "decode" /\ result.tag = "Some"
  /\ net.inorder /\ net.lost = 0
  /\ net.decoded # <<>> /\ net.decoded[1].seq = 256
  /\ pre.recv = 0 /\ decrypt.counter = 1
  /\ net.accepted = 257

\* C2 as claimed: when the frames handed to the receiver are not the frames
\* 0, 1, 2, ... in this order, some decode has failed on the counter and
\* left the receive counter alone by the time they are all decoded.
C2_AnyDisorderIsDetected ==
  (result.op = "decode" /\ input = <<>> /\ ~net.inorder) => net.mismatch

\* C2, amended: a frame whose emission index differs from the number of
\* frames accepted before it by no multiple of 256 is consumed and fails
\* with "invalid decryption counter X, expected Y" (X the index mod 256, Y
\* the receive counter) and the receive counter stays; a frame whose index
\* differs by a multiple of 256 (0, or 256 frames dropped or displaced) is
\* accepted and the counter advances.
C2_DisorderDetectedModulo256 ==
  (result.op = "decode" /\ net.decoded # <<>>) =>
    LET f == net.decoded[1]
        before == IF result.tag = "Some" THEN net.accepted - 1 ELSE net.accepted
    IN  /\ pre.recv = before % 256
        /\ input = <<>>
        /\ IF (f.seq - before) % 256 # 0
             THEN /\ result.tag = "Err" /\ result.kind = "Other"
                  /\ result.msg = "invalid decryption counter " \o ToString(f.seq % 256)
                                    \o ", expected " \o ToString(before % 256)
                  /\ result.packet = NoPacket
                  /\ decrypt.counter = pre.recv
                  /\ net.mismatch
             ELSE /\ result.tag = "Some" /\ result.packet = f.packet
                  /\ decrypt.counter = (pre.recv + 1) % 256

\* The transport dropped a frame, and the decode of the next one failed on
\* the counter.
C2_Witness ==
  /\ result.op = "decode" /\ result.tag = "Err"
  /\ net.lost = 1 /\ ~net.inorder /\ net.mismatch
  /\ net.decoded # <<>> /\ net.decoded[1].seq = net.accepted + 1
  /\ decrypt.counter = pre.recv

(***************************************************************************)
(* SpecPacket: Packet::to_bytes_ex and Packet::from_bytes_ex as functions. *)
(* A case is a cipher, an encryption (a scheme and a counter) and a packet *)
(* to serialize, or a frame to parse; the packet is serialized, the frame  *)
(* is parsed, and the parsed packet is serialized again.                   *)
(***************************************************************************)

\* Bounds: the longest of the short payloads, and the length of a payload
\* that takes a C2 frame.
SmallLen == 14
BulkLen  == 300

\* A second cipher table of 32 bytes.
AltCipher == [i \in 1..32 |-> (37 * i + 11) % 256]

PacketCiphers == { NoCipher, Some(XOR_CIPHER), Some(AltCipher) }
CounterSamples == { 0, 255 }
Schemes == { CLIENT, SERVER }
Encryptions ==
  { None } \cup { Some([crypto |-> c, counter |-> n]) : c \in Schemes, n \in CounterSamples }

\* Payload lengths around the block size: with the counter and the code,
\* 6 bytes fill a block and 7 bytes take a second one.
SmallLens == { 0, 1, DECRYPT_MOD - 2, DECRYPT_MOD - 1, SmallLen }

SmallPackets ==
  { Pkt(k, c, Payload(n)) : k \in {C1, C2}, c \in {244, 169, 255}, n \in SmallLens }

\* A case; checks tells whether the build checks integer overflow (the
\* blocks a scheme produced decrypt without overflow in either build).
Case(cipher, encryption, packet, frame, checks) ==
  [cipher |-> cipher, encryption |-> encryption, packet |-> packet, frame |-> frame,
   checks |-> checks]

\* Every short packet under every cipher and encryption.
SmallCases ==
  { Case(c, e, p, <<>>, TRUE) : c \in PacketCiphers, e \in Encryptions, p \in SmallPackets }

\* One packet under every counter value of both schemes.
CounterCases ==
  { Case(NoCipher, Some([crypto |-> c, counter |-> n]), Pkt(C1, 169, <<0, 0, 1>>), <<>>,
         FALSE) :
      c \in Schemes, n \in 0..255 }

\* Packets at and beyond the capacity of a frame: of the plain frame of
\* either kind, of the encrypted C3 frame, and a payload that takes a C4
\* frame.
LimitCases ==
  { Case(NoCipher, None, Pkt(k, 169, Payload(MaxPayload(k) + d)), <<>>, FALSE) :
      k \in {C1, C2}, d \in {0, 1} }
  \cup { Case(Some(XOR_CIPHER), None, Pkt(C1, c, Payload(MaxPayload(C1))), <<>>, FALSE) :
           c \in {244, 169} }
  \cup { Case(c, Some([crypto |-> k, counter |-> 255]),
              Pkt(C1, 169, Payload(MaxCryptPayload(C1) + d)), <<>>, b) :
           c \in {NoCipher, Some(XOR_CIPHER)}, k \in Schemes, d \in {0, 1},
           b \in BOOLEAN }
  \cup { Case(c, Some([crypto |-> k, counter |-> 128]),
              Pkt(C2, 169, Payload(BulkLen)), <<>>, TRUE) :
           c \in {NoCipher, Some(XOR_CIPHER)}, k \in Schemes }

\* A plaintext frame, byte by byte: kind, size (big endian), code, payload.
Frame(kind, size, code, data) ==
  << kind >> \o (IF kind \in {C1, C3} THEN << size >> ELSE << size \div 256, size % 256 >>)
    \o << code >> \o data

\* Frames to parse: well-formed plaintext frames (the size field counts the
\* bytes of the frame), and frames followed by another byte.
FrameCases ==
  { Case(c, None, NoPacket, f, FALSE) :
      c \in {NoCipher, Some(XOR_CIPHER)},
      f \in { Frame(C1, 3, 0, <<>>),
              Frame(C1, 6, 244, <<3, 0, 0>>),
              Frame(C1, 6, 169, <<0, 0, 1>>),
              Frame(C2, 4, 0, <<>>),
              Frame(C2, 7, 169, <<1, 2, 3>>),
              Frame(C2, 11, 244, <<6, 0, 1, 0, 0, 5, 119>>),
              Frame(C1, 255, 7, Payload(252)),
              Frame(C2, 260, 7, Payload(256)),
              Frame(C1, 5, 169, <<1, 2, 3>>),
              Frame(C2, 4, 169, <<9>>) } }
  \cup { Case(NoCipher, None, NoPacket, Frame(C2, 65535, 7, Payload(65531)), FALSE) }

Cases == SmallCases \cup CounterCases \cup LimitCases \cup FrameCases

InitPacket ==
  \E c \in Cases :
    LET crypto  == IF c.encryption.some THEN Some(c.encryption.v.crypto) ELSE NoCrypto
        counter == IF c.encryption.some THEN c.encryption.v.counter ELSE 0
    IN  /\ encrypt = [build(c.cipher, crypto) EXCEPT !.counter = counter]
        /\ decrypt = [build(c.cipher, crypto) EXCEPT !.counter = counter]
        /\ max_size = None
        /\ overflow_checks = c.checks
        /\ output = c.frame
        /\ input = <<>>
        /\ result = NoCall
        /\ pre = [NoPre EXCEPT !.packet = c.packet]
        /\ net = NoNet

\* The encryption argument of the case: the scheme and the counter.
Encryption ==
  IF encrypt.crypto.some
    THEN Some([crypto |-> encrypt.crypto.v, counter |-> encrypt.counter])
    ELSE None

\* to_bytes_ex of the packet of the case.
Serialize ==
  /\ result = NoCall /\ pre.packet # NoPacket
  /\ LET r == to_bytes_ex(pre.packet, encrypt.cipher, Encryption)
     IN  /\ output' = r.bytes
         /\ result' = [op |-> "to_bytes_ex", tag |-> r.tag, kind |-> "", msg |-> "",
                       packet |-> NoPacket, size |-> 0, counter |-> None]
  /\ UNCHANGED << codec, input, pre, net >>

\* from_bytes_ex of the frame in output, which moves to input.
Parse ==
  /\ output # <<>> /\ result.op \in {"none", "to_bytes_ex"}
  /\ LET r == from_bytes_ex(output, decrypt.cipher, decrypt.crypto, overflow_checks)
     IN  result' = [op |-> "from_bytes_ex", tag |-> r.tag, kind |-> r.kind,
                    msg |-> r.msg, packet |-> r.packet, size |-> r.size,
                    counter |-> r.counter]
  /\ input' = output
  /\ output' = <<>>
  /\ UNCHANGED << codec, pre, net >>

\* to_bytes_ex of the parsed packet, with the counter the parser reported.
Reserialize ==
  /\ result.op = "from_bytes_ex" /\ result.tag = "Ok" /\ output = <<>>
  /\ LET r == to_bytes_ex(result.packet, encrypt.cipher,
                IF result.counter.some
                  THEN Some([crypto |-> encrypt.crypto.v, counter |-> result.counter.v])
                  ELSE None)
     IN  r.tag = "Ok" /\ output' = r.bytes
  /\ UNCHANGED << codec, input, result, pre, net >>

NextPacket == Serialize \/ Parse \/ Reserialize

SpecPacket == InitPacket /\ [][NextPacket]_vars

\* The packet of the case keeps the invariant of a packet: its framed
\* length is at most the max size of its kind.
Fits == len(pre.packet) <= kind_max_size(pre.packet.kind)

\* to_bytes_ex was applied to the packet of the case; from_bytes_ex was
\* applied to the frame it returned; from_bytes_ex was applied to the frame
\* of the case.
Serialized == result.op = "to_bytes_ex"
ParsedBack == result.op = "from_bytes_ex" /\ pre.packet # NoPacket
ParsedFrame == result.op = "from_bytes_ex" /\ pre.packet = NoPacket

\* A plaintext frame whose size field counts its bytes.
WellFormed(b) ==
  /\ Len(b) >= 3 /\ b[1] \in {C1, C2}
  /\ Len(b) >= offset(b[1])
  /\ read_uint(b, bytes(b[1])) = Len(b)

\* C5: without cipher and encryption, a packet of kind C1 or C2 whose
\* payload is at most max_size - offset bytes long serializes, and the frame
\* parses to a packet of the same kind, code and data; and a well-formed
\* plaintext frame parses to a packet that serializes to the same bytes.
C5_RoundTripPlain ==
  (~encrypt.cipher.some /\ ~encrypt.crypto.some) =>
    /\ (Serialized /\ Fits) => (result.tag = "Ok" /\ output # <<>>)
    /\ (ParsedBack /\ Fits) =>
         /\ result.tag = "Ok"
         /\ result.packet.kind = pre.packet.kind
         /\ result.packet.code = pre.packet.code
         /\ result.packet.data = pre.packet.data
         /\ pre.packet.kind \in {C1, C2}
    /\ (ParsedFrame /\ WellFormed(input)) =>
         /\ result.tag = "Ok"
         /\ output # <<>> => output = input

\* The C1 packet with the longest payload was serialized to a frame of 255
\* bytes and parsed back.
C5_Witness ==
  /\ ParsedBack /\ result.tag = "Ok"
  /\ ~encrypt.cipher.some /\ ~encrypt.crypto.some
  /\ pre.packet.kind = C1 /\ Len(pre.packet.data) = 252
  /\ Len(input) = 255
  /\ result.packet = pre.packet

\* The whitening of the bytes lo..hi of the payload p, given the whitened
\* byte before them (prev): w[i] = p[i] XOR C[(off + i - 1) mod 32] XOR
\* w[i - 1].  The range is whitened half by half.
RECURSIVE WhitenedRange(_, _, _, _, _, _)
WhitenedRange(cipher, off, p, lo, hi, prev) ==
  IF lo > hi THEN <<>>
  ELSE IF lo = hi
    THEN << BitXor(p[lo], BitXor(cipher[((off + lo - 1) % 32) + 1], prev)) >>
  ELSE LET mid  == (lo + hi) \div 2
           left == WhitenedRange(cipher, off, p, lo, mid, prev)
       IN  left \o WhitenedRange(cipher, off, p, mid + 1, hi, left[Len(left)])

\* The whitening of the payload p: the byte before the first one is the code.
Whitened(cipher, off, code, p) == WhitenedRange(cipher, off, p, 1, Len(p), code)

\* The payload of which w is the whitening: each byte is XORed with the
\* table byte and with the whitened byte before it (the code for byte 0).
Unwhitened(cipher, off, code, w) ==
  [i \in 1..Len(w) |->
     BitXor(w[i], BitXor(cipher[((off + i - 1) % 32) + 1],
                         IF i = 1 THEN code ELSE w[i - 1]))]

\* The bytes of a plaintext frame after the code, up to the size the frame
\* states.
PayloadOf(b) == SubSeq(b, offset(b[1]) + 1, read_uint(b, bytes(b[1])))

\* C6: with a 32-byte cipher table and no encryption, a packet whose code is
\* not 0xF4 serializes to a frame that parses to a packet of the same kind,
\* code and data; in the frame, byte i of the payload is the byte of the
\* packet XOR C[(offset + i) mod 32] XOR prev, where prev is the code for
\* i = 0 and the byte i - 1 of the frame otherwise, and the parser undoes
\* exactly this.
C6_RoundTripXor ==
  (encrypt.cipher.some /\ ~encrypt.crypto.some) =>
    /\ (Serialized /\ Fits /\ pre.packet.code # 244) =>
         /\ result.tag = "Ok"
         /\ Len(encrypt.cipher.v) = 32
         /\ PayloadOf(output) =
              Whitened(encrypt.cipher.v, offset(pre.packet.kind), pre.packet.code,
                       pre.packet.data)
    /\ (ParsedBack /\ Fits /\ pre.packet.code # 244) =>
         /\ result.tag = "Ok"
         /\ result.packet.kind = pre.packet.kind
         /\ result.packet.code = pre.packet.code
         /\ result.packet.data = pre.packet.data
    /\ (result.op = "from_bytes_ex" /\ result.tag = "Ok" /\ result.packet.code # 244) =>
         result.packet.data =
           Unwhitened(decrypt.cipher.v, offset(result.packet.kind), result.packet.code,
                      PayloadOf(input))

\* A C1 packet with the longest payload and a code other than 0xF4 went
\* through the cipher of lib.rs and back.
C6_Witness ==
  /\ ParsedBack /\ result.tag = "Ok"
  /\ encrypt.cipher = Some(XOR_CIPHER) /\ ~encrypt.crypto.some
  /\ pre.packet.code = 169 /\ Len(pre.packet.data) = 252
  /\ input # to_bytes(pre.packet).bytes
  /\ result.packet = pre.packet

\* The content of an encrypted frame: the bytes its blocks decrypt to.
Content(b) ==
  Crypto_decrypt(decrypt.crypto.v.decrypt,
                 SubSeq(b, offset(b[1]) + 1, read_uint(b, bytes(b[1]))), FALSE).out

\* The whitened or plain payload a frame carries: the bytes after the code
\* of a plaintext frame, or after counter and code in an encrypted one.
Carried(b) ==
  IF is_encrypted(b[1])
    THEN LET c == Content(b) IN SubSeq(c, 3, Len(c))
    ELSE PayloadOf(b)

\* C7: with a cipher, a packet whose code is 0xF4 serializes to the bytes it
\* serializes to without a cipher (under the same encryption), and a frame
\* whose code is 0xF4 parses to what it parses to without a cipher; a packet
\* with another code and a payload serializes to a frame that carries the
\* whitened payload, and the parser undoes the whitening.
C7_OpcodeExemption ==
  encrypt.cipher.some =>
    /\ (Serialized /\ pre.packet.code = 244) =>
         LET plain == to_bytes_ex(pre.packet, NoCipher, Encryption)
         IN  result.tag = plain.tag /\ output = plain.bytes
    /\ (result.op = "from_bytes_ex" /\ result.tag = "Ok" /\ result.packet.code = 244) =>
         LET plain == from_bytes_ex(input, NoCipher, decrypt.crypto, overflow_checks)
         IN  plain.tag = "Ok" /\ plain.packet = result.packet
               /\ result.packet.data = Carried(input)
    /\ (Serialized /\ result.tag = "Ok" /\ pre.packet.code # 244 /\ pre.packet.data # <<>>) =>
         LET carried == Carried(output)
         IN  /\ carried =
                  Whitened(encrypt.cipher.v, offset(pre.packet.kind), pre.packet.code,
                           pre.packet.data)
             /\ carried # pre.packet.data
    /\ (result.op = "from_bytes_ex" /\ result.tag = "Ok"
          /\ result.packet.code # 244 /\ result.packet.data # <<>>) =>
         result.packet.data =
           Unwhitened(decrypt.cipher.v, offset(result.packet.kind), result.packet.code,
                      Carried(input))

\* A packet with code 0xF4 and a payload went through an encrypted frame
\* and back under a cipher.
C7_Witness ==
  /\ ParsedBack /\ result.tag = "Ok"
  /\ encrypt.cipher.some /\ encrypt.crypto.some
  /\ pre.packet.code = 244 /\ pre.packet.data # <<>>
  /\ result.packet = pre.packet

\* The packet of the case went through an encrypted frame of the paired
\* kind and back, and the parser reported the counter of the case.
CryptoRoundTrip ==
  /\ Serialized =>
       /\ result.tag = "Ok"
       /\ output[1] = (IF pre.packet.kind = C1 THEN C3 ELSE C4)
  /\ ParsedBack =>
       /\ result.tag = "Ok"
       /\ result.packet.kind = pre.packet.kind
       /\ result.packet.code = pre.packet.code
       /\ result.packet.data = pre.packet.data
       /\ result.counter = Some(encrypt.counter)
       /\ result.size = Len(input)

\* C8 as claimed: under either scheme and any counter, every packet goes
\* through an encrypted frame and back.
C8_RoundTripCryptoAnyPayload ==
  (encrypt.crypto.some /\ pre.packet # NoPacket /\ Fits) => CryptoRoundTrip

\* C8, amended: under either scheme and any counter, every packet whose
\* block-encrypted frame (11 bytes for every 8 bytes of counter, code and
\* payload, after the header) is at most the max size of the encrypted kind
\* goes through an encrypted frame and back; for a longer packet to_bytes_ex
\* panics.
C8_RoundTripCrypto ==
  (encrypt.crypto.some /\ pre.packet # NoPacket /\ Fits) =>
    IF EncryptedSize(pre.packet) <= kind_max_size(encrypted(pre.packet.kind))
      THEN CryptoRoundTrip
      ELSE Serialized => (result.tag = "Panic" /\ output = <<>>)

\* The C1 packet with the longest payload whose encrypted frame fits went
\* through a C3 frame of 255 bytes and back, with the counter 255.
C8_Witness ==
  /\ ParsedBack /\ result.tag = "Ok"
  /\ encrypt.crypto.some /\ encrypt.counter = 255
  /\ pre.packet.kind = C1 /\ Len(pre.packet.data) = 182
  /\ Len(input) = 255 /\ input[1] = C3
  /\ result.packet = pre.packet /\ result.counter = Some(255)


(***************************************************************************)
(* SpecStream: a stream of frames.  The sender encodes packets back to     *)
(* back into output; the transport appends the bytes to the receiver's     *)
(* input in chunks of any size; after every chunk the receiver calls       *)
(* decode until it returns None.                                           *)
(***************************************************************************)

\* Bounds: the number of packets the sender encodes, and the cap of the
\* receiver of encrypted frames (above the longest single frame of the
\* stream, below the shortest two).
MaxStream == 2
CapStream == 16

StreamPackets == { Pkt(C1, 169, <<0, 0, 1>>), Pkt(C2, 0, <<>>) }

\* The bookkeeping of the stream: the packets encoded and the packets decode
\* returned, in order; whether the last decode returned None since the last
\* chunk; whether a decode failed; whether some decode was given less than a
\* header; the numbers of encrypted frames encode emitted and decode
\* returned a packet for; the length of the longest frame encode emitted.
NoStream ==
  [encoded |-> <<>>, returned |-> <<>>, drained |-> TRUE, failed |-> FALSE,
   partial |-> FALSE, sent_encrypted |-> 0, recv_encrypted |-> 0, longest |-> 0]

StreamConnections ==
  { Conn(NoCipher, NoCrypto, NoCrypto, None, FALSE),
    Conn(Some(XOR_CIPHER), NoCrypto, NoCrypto, None, TRUE),
    Conn(NoCipher, Some(CLIENT), Some(CLIENT), None, TRUE),
    Conn(Some(XOR_CIPHER), Some(SERVER), Some(SERVER), None, FALSE),
    Conn(NoCipher, NoCrypto, Some(CLIENT), None, FALSE),
    Conn(NoCipher, NoCrypto, NoCrypto, Some(CapSmall), FALSE),
    Conn(Some(XOR_CIPHER), Some(CLIENT), Some(CLIENT), Some(CapStream), TRUE) }

InitStream ==
  /\ \E c \in StreamConnections :
       /\ encrypt = c.enc /\ decrypt = c.dec
       /\ max_size = c.cap /\ overflow_checks = c.checks
  /\ output = <<>>
  /\ input = <<>>
  /\ result = NoCall
  /\ pre = NoPre
  /\ net = NoStream

\* The sender encodes a packet behind the frames already in output.
StreamEncode(p) ==
  /\ Len(net.encoded) < MaxStream
  /\ Encode(p)
  /\ net' = [net EXCEPT !.encoded = Append(@, p),
               !.sent_encrypted =
                 IF result'.tag = "Ok" /\ is_encrypted(output'[Len(output) + 1])
                   THEN @ + 1 ELSE @,
               !.longest =
                 IF Len(output') - Len(output) > @ THEN Len(output') - Len(output) ELSE @]

\* The transport appends the next k bytes to the receiver's input.
StreamDeliver(k) ==
  /\ net.drained
  /\ Deliver(k)
  /\ net' = [net EXCEPT !.drained = FALSE]

\* The receiver calls decode, until it returns None.
StreamDecode ==
  /\ ~net.drained
  /\ Decode
  /\ net' = [net EXCEPT
               !.returned = IF result'.tag = "Some" THEN Append(@, result'.packet) ELSE @,
               !.drained = result'.tag = "None",
               !.failed = @ \/ result'.tag \in {"Err", "Panic"},
               !.partial = @ \/ /\ result'.tag = "None" /\ input # <<>>
                                /\ Len(input) < 1 + bytes(input[1]),
               !.recv_encrypted =
                 IF result'.tag = "Some" /\ is_encrypted(input[1]) THEN @ + 1 ELSE @]

NextStream ==
  \/ \E p \in StreamPackets : StreamEncode(p)
  \/ \E k \in 1..Len(output) : StreamDeliver(k)
  \/ StreamDecode

SpecStream == InitStream /\ [][NextStream]_vars

\* The buffer begins with a whole frame of at most cap bytes.
WholeFrameWithin(in, cap) ==
  /\ Len(in) >= 1 /\ in[1] \in PacketKind
  /\ Len(in) >= 1 + bytes(in[1])
  /\ read_uint(in, bytes(in[1])) <= Len(in)
  /\ read_uint(in, bytes(in[1])) <= cap

\* The last decode failed with "max packet size exceeded".
SizeExceeded ==
  /\ result.op = "decode" /\ result.tag = "Err"
  /\ result.kind = "Other" /\ result.msg = "max packet size exceeded"

\* C11: decode fails with "max packet size exceeded" only under a configured
\* max size and only when the buffer holds more bytes than it and does not
\* begin with a whole frame within it: a buffer that begins with a whole
\* frame of at most max size bytes is decoded to that frame, whatever is
\* buffered behind it.
C11_CapAppliesToFrames ==
  result.op = "decode" =>
    /\ SizeExceeded => (max_size.some /\ Len(pre.input) > max_size.v)
    /\ (max_size.some /\ WholeFrameWithin(pre.input, max_size.v)) =>
         (~SizeExceeded /\ result.tag = "Some")


\* C13: after any sequence of encode and decode calls, the send counter is
\* the number of encrypted (C3/C4) frames encode has emitted and the receive
\* counter the number of encrypted frames decode has returned a packet for,
\* both modulo 256; a frame that is not encrypted advances neither.
C13_CountersCountEncryptedFrames ==
  /\ encrypt.counter = net.sent_encrypted % 256
  /\ decrypt.counter = net.recv_encrypted % 256

(***************************************************************************)
(* The size field (checked under SpecPacket).                              *)
(***************************************************************************)

\* The size field of a frame as it is on the wire: one byte after the kind
\* byte of a C1 or C3 frame, two bytes (big endian) in a C2 or C4 frame.
SizeField(b) ==
  IF b[1] \in {193, 195} THEN b[2] ELSE 256 * b[2] + b[3]

\* C12: every frame to_bytes_ex returns starts with the kind byte (the kind
\* of the packet, or its encrypted pair under block encryption), followed by
\* a size field that equals the number of bytes of the frame, and this
\* number is at most 255 for C1 and C3 and at most 65535 for C2 and C4; a
\* plaintext frame has the header, the code and the payload of the packet.
C12_SizeFieldCountsFrame ==
  (Serialized /\ result.tag = "Ok") =>
    /\ Len(output) >= 3
    /\ output[1] = (IF encrypt.crypto.some
                      THEN (IF pre.packet.kind = C1 THEN C3 ELSE C4)
                      ELSE pre.packet.kind)
    /\ SizeField(output) = Len(output)
    /\ Len(output) <= (IF output[1] \in {193, 195} THEN 255 ELSE 65535)
    /\ ~encrypt.crypto.some =>
         Len(output) = Len(pre.packet.data) + (IF pre.packet.kind = C1 THEN 3 ELSE 4)
    /\ encrypt.crypto.some =>
         Len(output) = 11 * ((Len(pre.packet.data) + 2 + 7) \div 8)
                         + (IF pre.packet.kind = C1 THEN 2 ELSE 3)

\* A packet was serialized under a cipher and block encryption to a C4 frame
\* whose size takes both bytes of the size field.
C12_Witness ==
  /\ Serialized /\ result.tag = "Ok"
  /\ encrypt.cipher.some /\ encrypt.crypto.some
  /\ output[1] = C4 /\ Len(output) > 255
  /\ output[2] = Len(output) \div 256 /\ output[3] = Len(output) % 256


(***************************************************************************)
(* SpecKind: PacketKind::from_byte applied to every byte, and the derived  *)
(* attributes of the kind it returns.                                      *)
(***************************************************************************)
InitKind ==
  /\ \E b \in 0..255 : input = << b >>
  /\ encrypt = build(NoCipher, NoCrypto) /\ decrypt = build(NoCipher, NoCrypto)
  /\ max_size = None /\ overflow_checks = FALSE
  /\ output = <<>>
  /\ result = NoCall
  /\ pre = NoPre
  /\ net = NoNet

\* from_byte of the byte, and every method of the kind it returns.
Classify ==
  /\ result = NoCall
  /\ result' =
       IF from_byte(input[1]).some
         THEN [op |-> "from_byte", some |-> TRUE,
               kind         |-> from_byte(input[1]).v,
               bytes        |-> bytes(from_byte(input[1]).v),
               max_size     |-> kind_max_size(from_byte(input[1]).v),
               is_encrypted |-> is_encrypted(from_byte(input[1]).v),
               offset       |-> offset(from_byte(input[1]).v),
               encrypted    |-> encrypted(from_byte(input[1]).v),
               decrypted    |-> decrypted(from_byte(input[1]).v)]
         ELSE [op |-> "from_byte", some |-> FALSE]
  /\ UNCHANGED << codec, input, output, pre, net >>

NextKind == Classify

SpecKind == InitKind /\ [][NextKind]_vars

\* The table of the kinds: byte, size-field width, max size, encrypted,
\* header offset, encrypted pair, decrypted pair.
KindTable ==
  { [kind |-> 193, bytes |-> 1, max_size |-> 255,   is_encrypted |-> FALSE,
     offset |-> 3, encrypted |-> 195, decrypted |-> 193],
    [kind |-> 194, bytes |-> 2, max_size |-> 65535, is_encrypted |-> FALSE,
     offset |-> 4, encrypted |-> 196, decrypted |-> 194],
    [kind |-> 195, bytes |-> 1, max_size |-> 255,   is_encrypted |-> TRUE,
     offset |-> 2, encrypted |-> 195, decrypted |-> 193],
    [kind |-> 196, bytes |-> 2, max_size |-> 65535, is_encrypted |-> TRUE,
     offset |-> 3, encrypted |-> 196, decrypted |-> 194] }

\* C14: from_byte accepts exactly 0xC1..0xC4, and the attributes of the kind
\* it returns are the tabulated ones; the offset is the size-field width
\* plus 1, plus 1 more for a kind that is not encrypted.
C14_KindTable ==
  result.op = "from_byte" =>
    /\ result.some = (input[1] \in 193..196)
    /\ result.some =>
         /\ result.kind = input[1]
         /\ \E row \in KindTable :
              /\ row.kind = result.kind
              /\ row.bytes = result.bytes
              /\ row.max_size = result.max_size
              /\ row.is_encrypted = result.is_encrypted
              /\ row.offset = result.offset
              /\ row.encrypted = result.encrypted
              /\ row.decrypted = result.decrypted
         /\ result.offset = result.bytes + 1 + (IF result.is_encrypted THEN 0 ELSE 1)

\* from_byte returned C4 for 0xC4: two size bytes and offset 3.
C14_Witness ==
  /\ result.op = "from_byte" /\ input = << 196 >>
  /\ result.some /\ result.kind = C4
  /\ result.bytes = 2 /\ result.offset = 3 /\ result.is_encrypted


(***************************************************************************)
(* The place of the opcode in a frame (checked under SpecPacket).          *)
(***************************************************************************)

\* C15 as claimed: in a plaintext frame the parser reads one byte between
\* the size field and the opcode (kind, size, protocol byte, code, payload);
\* in an encrypted frame the counter is the first decrypted byte and the
\* opcode the byte after it.
C15_ProtocolByteBeforeOpcode ==
  (result.op = "from_bytes_ex" /\ result.tag = "Ok") =>
    IF ~is_encrypted(input[1])
      THEN /\ Len(input) >= bytes(input[1]) + 3
           /\ result.packet.code = input[bytes(input[1]) + 3]
           /\ Len(result.packet.data) = SizeField(input) - (bytes(input[1]) + 3)
      ELSE LET Inner(c) == result.counter = Some(c[1]) /\ result.packet.code = c[2]
           IN  Inner(Content(input))

\* C15, amended: in a plaintext frame the parser reads the opcode right
\* after the size field (kind, size, code, payload: no byte in between) and
\* the payload is every byte after it up to the size the frame states; in an
\* encrypted frame the counter is the first decrypted byte, the opcode the
\* byte after it and the payload the rest.  (The payload is compared where
\* no cipher whitens it.)
C15_OpcodeFollowsSizeField ==
  (result.op = "from_bytes_ex" /\ result.tag = "Ok") =>
    LET plain == ~decrypt.cipher.some \/ result.packet.code = 244
        Inner(c) ==
          /\ Len(c) >= 2
          /\ result.counter = Some(c[1])
          /\ result.packet.code = c[2]
          /\ Len(result.packet.data) = Len(c) - 2
          /\ plain => result.packet.data = SubSeq(c, 3, Len(c))
    IN  IF ~is_encrypted(input[1])
          THEN /\ result.counter = None
               /\ result.packet.code = input[bytes(input[1]) + 2]
               /\ Len(result.packet.data) = SizeField(input) - (bytes(input[1]) + 2)
               /\ plain => result.packet.data =
                             SubSeq(input, bytes(input[1]) + 3, SizeField(input))
          ELSE Inner(Content(input))

\* The C2 frame of the test packet_c2 was parsed: the code is 0xF4, the byte
\* after the two size bytes, and the payload starts with 0x06.
C15_Witness ==
  /\ result.op = "from_bytes_ex" /\ result.tag = "Ok"
  /\ input = << 194, 0, 11, 244, 6, 0, 1, 0, 0, 5, 119 >>
  /\ result.packet.kind = C2 /\ result.packet.code = 244
  /\ result.packet.data = << 6, 0, 1, 0, 0, 5, 119 >>


(***************************************************************************)
(* SpecBlock: Crypto::encrypt and Crypto::decrypt as functions.  A buffer  *)
(* is encrypted under a scheme; the blocks are decrypted again, and        *)
(* decrypted with each single bit flipped.                                 *)
(***************************************************************************)

\* Bounds: the longest buffer that is encrypted, and the longest buffer
\* whose blocks are decrypted with a flipped bit.
MaxBlockInput == 17
MaxProbeInput == 8

\* Two buffers of every length.
BlockInputs ==
  { [i \in 1..n |-> (m * i + 3) % 256] : n \in 0..MaxBlockInput, m \in {7, 91} }

InitBlock ==
  /\ \E k \in Schemes, b \in BOOLEAN, d \in BlockInputs :
       /\ encrypt = build(NoCipher, Some(k)) /\ decrypt = build(NoCipher, Some(k))
       /\ overflow_checks = b
       /\ pre = [NoPre EXCEPT !.input = d]
  /\ max_size = None
  /\ output = <<>>
  /\ input = <<>>
  /\ result = NoCall
  /\ net = NoNet

\* encrypt(data)
EncryptBuffer ==
  /\ result = NoCall
  /\ output' = Crypto_encrypt(encrypt.crypto.v.encrypt, pre.input)
  /\ result' = [op |-> "encrypt"]
  /\ UNCHANGED << codec, input, pre, net >>

\* decrypt of the blocks encrypt returned.
DecryptBuffer ==
  /\ result.op = "encrypt"
  /\ LET Returned(r) == result' = [op |-> "decrypt", tag |-> r.tag, out |-> r.out]
     IN  Returned(Crypto_decrypt(decrypt.crypto.v.decrypt, output, overflow_checks))
  /\ UNCHANGED << codec, input, output, pre, net >>

\* The buffer with bit n flipped (bit n % 8 of byte n \div 8).
Flipped(buffer, n) ==
  [buffer EXCEPT ![(n \div 8) + 1] = BitXor(buffer[(n \div 8) + 1], Pow2(n % 8))]

\* decrypt of the blocks with one bit flipped, for every bit: what decrypt
\* returned for each.
ProbeFlips ==
  /\ result.op = "encrypt" /\ output # <<>>
  /\ Len(pre.input) <= MaxProbeInput
  /\ result' =
       [op |-> "probe",
        outcome |-> [n \in 0..(8 * Len(output) - 1) |->
                       Crypto_decrypt(decrypt.crypto.v.decrypt, Flipped(output, n),
                                      overflow_checks).tag]]
  /\ UNCHANGED << codec, input, output, pre, net >>

NextBlock == EncryptBuffer \/ DecryptBuffer \/ ProbeFlips

SpecBlock == InitBlock /\ [][NextBlock]_vars

\* The bits whose flip decrypt did not answer with the checksum error, and
\* the bits of the two trailer bytes (bytes 9 and 10 of each block).
Undetected == { n \in DOMAIN result.outcome : result.outcome[n] # "Err" }
TrailerBits == { n \in DOMAIN result.outcome : ((n \div 8) % 11) \in {9, 10} }

\* C16: whichever single bit of the blocks encrypt returned is flipped,
\* decrypt fails with the checksum error: always for the bits of the trailer
\* bytes 9 and 10, and for all but about 1% (at most one of the 88 bits of a
\* block) overall.
C16_EveryFlipIsDetected ==
  result.op = "probe" =>
    /\ Undetected \cap TrailerBits = {}
    /\ Cardinality(Undetected) * 88 <= Cardinality(DOMAIN result.outcome)


\* The XOR of the bytes lo..hi of a buffer.
RECURSIVE XorOver(_, _, _)
XorOver(data, lo, hi) ==
  IF lo > hi THEN 0 ELSE BitXor(data[lo], XorOver(data, lo + 1, hi))

\* C17: encrypt returns 11 bytes for every 8 bytes of input or part of
\* them (nothing for an empty input); in the block of the chunk i, byte 10
\* is x = 0xF8 XOR the bytes of the chunk (the zero padding adds nothing)
\* and byte 9 is x XOR the length of the chunk XOR 0x3D, the length being 8
\* for every chunk but the last and 1..8 for the last.
C17_BlockLengths ==
  result.op = "encrypt" =>
    LET n == Len(pre.input)
        blocks == (n + 7) \div 8
    IN  /\ Len(output) = 11 * blocks
        /\ \A i \in 1..blocks :
             LET lo == 8 * (i - 1) + 1
                 hi == IF 8 * i > n THEN n ELSE 8 * i
                 x  == BitXor(248, XorOver(pre.input, lo, hi))
             IN  /\ hi - lo + 1 \in 1..8
                 /\ (i < blocks) => (hi - lo + 1 = 8)
                 /\ output[11 * (i - 1) + 11] = x
                 /\ output[11 * (i - 1) + 10] = BitXor(BitXor(x, hi - lo + 1), 61)

\* A buffer of 17 bytes was encrypted to three blocks, the last one for a
\* chunk of one byte.
C17_Witness ==
  /\ result.op = "encrypt"
  /\ Len(pre.input) = 17 /\ Len(output) = 33
  /\ output[33] = BitXor(248, pre.input[17])
  /\ output[32] = BitXor(BitXor(output[33], 1), 61)


(***************************************************************************)
(* SpecKeys: Crypto::new, which loads the two key tables from a pair of    *)
(* blobs.  A u32 is its four little-endian bytes here, so that all 32 bits *)
(* of a word are kept; pre holds the arguments of the call and result the  *)
(* tables and where the cursor of each load stopped.                       *)
(***************************************************************************)

\* ENCRYPTION_SIZE
ENCRYPTION_SIZE == 54

\* XOR_CIPHER of crypto.rs (the four words that mask the default keys):
\* 0x3F08A79B, 0xE25CC287, 0x93D27AB9, 0x20DEA7BF.
KEY_XOR_CIPHER ==
  << << 155, 167, 8, 63 >>, << 135, 194, 92, 226 >>,
     << 185, 122, 210, 147 >>, << 191, 167, 222, 32 >> >>

\* a ^ b on u32
XorWord(a, b) == [i \in 1..4 |-> BitXor(a[i], b[i])]

\* The flags Crypto::new passes for the encrypt and the decrypt table.
EncryptFlags == << TRUE, TRUE, FALSE, TRUE >>
DecryptFlags == << TRUE, FALSE, TRUE, TRUE >>

\* reader.read_u32::<LittleEndian>().unwrap() ^ xor[i], left as read.
KeyWord_unmasked(keys, xor, pos, i) == SubSeq(keys, pos + 1, pos + 4)

\* reader.read_u32::<LittleEndian>().unwrap() ^ xor[i], for the cursor at
\* pos and the inner index i (from 1 here).
KeyWord(keys, xor, pos, i) == XorWord(SubSeq(keys, pos + 1, pos + 4), xor[i])

\* The loops of load_keys from the row `row` (from 1 here) on, the cursor
\* at pos: an unwrap of a read past the end of the blob panics.
RECURSIVE LoadRows(_, _, _, _, _, _)
LoadRows(keys, xor, flags, row, pos, table) ==
  IF row > Len(flags) THEN [tag |-> "Ok", table |-> table, pos |-> pos]
  ELSE IF ~flags[row]
    THEN LoadRows(keys, xor, flags, row + 1, pos,
                  table \o [i \in 1..4 |-> << 0, 0, 0, 0 >>])
  ELSE IF pos + 16 > Len(keys)
    THEN [tag |-> "Panic", table |-> table, pos |-> pos]
  ELSE LoadRows(keys, xor, flags, row + 1, pos + 16,
                table \o [i \in 1..4 |-> KeyWord(keys, xor, pos + 4 * (i - 1), i)])

\* Crypto::load_keys
load_keys(keys, xor, flags) == LoadRows(keys, xor, flags, 1, 6, <<>>)

\* A blob of ENCRYPTION_SIZE bytes that holds the words of a table (numbers
\* below 2^24) for the rows whose flag is set, masked as load_keys unmasks
\* them, after six bytes of header.
BlobOf(header, table, xor, flags) ==
  LET rows == SelectSeq(<< 1, 2, 3, 4 >>, LAMBDA r : flags[r])
  IN  header \o
      [n \in 1..(16 * Len(rows)) |->
         XorWord(write_u32(table[4 * (rows[((n - 1) \div 16) + 1] - 1)
                                 + (((n - 1) \div 4) % 4) + 1]),
                 xor[(((n - 1) \div 4) % 4) + 1])[((n - 1) % 4) + 1]]

\* Blobs for the encrypt table and for the decrypt table: those of the
\* built-in schemes and two of arbitrary bytes.
ArbitraryBlobs == { [i \in 1..ENCRYPTION_SIZE |-> (m * i + 3) % 256] : m \in {7, 91} }

EncBlobs ==
  { BlobOf(<< 18, 17, 54, 0, 0, 0 >>, k.encrypt, KEY_XOR_CIPHER, EncryptFlags) :
      k \in Schemes } \cup ArbitraryBlobs

DecBlobs ==
  { BlobOf(<< 18, 17, 54, 0, 0, 0 >>, k.decrypt, KEY_XOR_CIPHER, DecryptFlags) :
      k \in Schemes } \cup ArbitraryBlobs

\* Masks: the default one, none, and one of arbitrary bytes.
KeyMasks ==
  { KEY_XOR_CIPHER,
    [i \in 1..4 |-> << 0, 0, 0, 0 >>],
    [i \in 1..4 |-> [j \in 1..4 |-> (29 * i + 53 * j) % 256]] }

InitKeys ==
  /\ \E enc \in EncBlobs, dec \in DecBlobs, xor \in KeyMasks, h \in {0, 1, 255} :
       pre = [op |-> "new",
              enc |-> [enc EXCEPT ![1] = (@ + h) % 256, ![6] = (@ + h) % 256],
              dec |-> dec, xor |-> xor]
  /\ encrypt = build(NoCipher, NoCrypto) /\ decrypt = build(NoCipher, NoCrypto)
  /\ max_size = None /\ overflow_checks = FALSE
  /\ output = <<>> /\ input = <<>>
  /\ result = NoCall
  /\ net = NoNet

\* Crypto::new(enc, dec, xor)
NewCrypto ==
  /\ result = NoCall
  /\ result' = [op |-> "new",
                encrypt |-> load_keys(pre.enc, pre.xor, EncryptFlags),
                decrypt |-> load_keys(pre.dec, pre.xor, DecryptFlags)]
  /\ UNCHANGED << codec, input, output, pre, net >>

NextKeys == NewCrypto

SpecKeys == InitKeys /\ [][NextKeys]_vars

\* The number of rows before `row` (from 0) whose flag is set.
RowsReadBefore(flags, row) == Cardinality({ r \in 1..row : flags[r] })

\* What a load returned against the blob: 16 words in row-major order,
\* zeros for a row whose flag is unset, and for a row whose flag is set the
\* words of the blob in the order they lie after the first six bytes, each
\* XORed with the word Mask(row, col) of the mask; the cursor ends six
\* bytes plus four for every word of a set row into the blob.
Loaded(loaded, keys, xor, flags, Mask(_, _)) ==
  /\ loaded.tag = "Ok"
  /\ Len(loaded.table) = 16
  /\ \A row \in 0..3, col \in 0..3 :
       loaded.table[row * 4 + col + 1] =
         IF flags[row + 1]
           THEN LET at == 6 + 4 * (4 * RowsReadBefore(flags, row) + col)
                IN  XorWord(<< keys[at + 1], keys[at + 2], keys[at + 3], keys[at + 4] >>,
                            xor[Mask(row, col)])
           ELSE << 0, 0, 0, 0 >>
  /\ loaded.pos = 6 + 16 * RowsReadBefore(flags, 4)

\* C18 as claimed: the word of a set row is XORed with the XOR word of that
\* row.
MaskOfRow(row, col) == row + 1

C18_MaskedByRow ==
  result.op = "new" =>
    /\ Loaded(result.encrypt, pre.enc, pre.xor, EncryptFlags, MaskOfRow)
    /\ Loaded(result.decrypt, pre.dec, pre.xor, DecryptFlags, MaskOfRow)

\* C18, amended: load_keys skips the first 6 bytes of the 54-byte blob and
\* fills a 16-word table addressed as table[row*4 + col] in row-major
\* order; for a row whose flag is set each entry is the next little-endian
\* 32-bit word of the blob XORed with the XOR word of its column (xor[col]),
\* and for a row whose flag is unset all four entries are zero and no blob
\* bytes are consumed; with the flags of the encrypt and of the decrypt
\* table exactly 12 words, the whole blob, are read.
MaskOfColumn(row, col) == col + 1

C18_MaskedByColumn ==
  result.op = "new" =>
    /\ Loaded(result.encrypt, pre.enc, pre.xor, EncryptFlags, MaskOfColumn)
    /\ Loaded(result.decrypt, pre.dec, pre.xor, DecryptFlags, MaskOfColumn)
    /\ result.encrypt.pos = Len(pre.enc) /\ result.decrypt.pos = Len(pre.dec)
    /\ Len(pre.enc) = ENCRYPTION_SIZE /\ Len(pre.dec) = ENCRYPTION_SIZE

\* The blobs of the client's words were loaded under the default mask: the
\* tables are the client's, the third row of the encrypt table and the
\* second of the decrypt table are zero, and both cursors are at the end.
C18_Witness ==
  /\ result.op = "new" /\ pre.xor = KEY_XOR_CIPHER
  /\ result.encrypt.table = [i \in 1..16 |-> write_u32(CLIENT.encrypt[i])]
  /\ result.decrypt.table = [i \in 1..16 |-> write_u32(CLIENT.decrypt[i])]
  /\ result.encrypt.table[9] = << 0, 0, 0, 0 >>
  /\ result.decrypt.table[5] = << 0, 0, 0, 0 >>
  /\ result.encrypt.table[2] = << 134, 131, 2, 0 >>
  /\ result.encrypt.pos = 54 /\ result.decrypt.pos = 54


(***************************************************************************)
(* The order of a stream (checked under SpecStream).                       *)
(***************************************************************************)

\* The receive state has the cipher and the schedule of the send state.
StreamMatched ==
  /\ decrypt.cipher = encrypt.cipher
  /\ decrypt.crypto = encrypt.crypto

\* s is a prefix of t.
IsPrefix(s, t) == Len(s) <= Len(t) /\ s = SubSeq(t, 1, Len(s))

\* What the claim says of the receiver: no decode failed, the packets
\* returned so far are the first packets encoded, in order, and once every
\* byte is delivered and decode has returned None all of them are returned
\* and the buffer is empty.
InOrder ==
  /\ ~net.failed
  /\ IsPrefix(net.returned, net.encoded)
  /\ (net.drained /\ output = <<>>) =>
       (net.returned = net.encoded /\ input = <<>>)

\* C19: when the receive state matches the send state (and every frame
\* the sender emitted is within the receiver's max size, if one is
\* configured), the receiver, fed the sender's bytes in chunks split
\* anywhere and calling decode until None after every chunk, returns
\* exactly the packets encoded, in order, without any error, and its buffer
\* is empty once all bytes are delivered.
C19_StreamInOrder ==
  (StreamMatched /\ (max_size.some => net.longest <= max_size.v)) => InOrder


(***************************************************************************)
(* SpecUntrusted: the parser on bytes nobody encoded.  input is a buffer   *)
(* of arbitrary bytes; it is given to from_bytes_ex, or to decode, under   *)
(* each cipher option and decryption option.                               *)
(***************************************************************************)

\* Bounds: the length of the buffers of arbitrary bytes, and the length of
\* the ciphertext of the encrypted frames.
MaxUntrusted == 4
MaxCiphertext == 12

\* The bytes of the short buffers: the four kinds and sizes about the
\* header offsets.
UntrustedBytes == { C1, C2, C3, C4, 0, 3 }

ShortBuffers == UNION { [1..n -> UntrustedBytes] : n \in 0..MaxUntrusted }

\* Encrypted frames whose size field counts the frame, with a ciphertext of
\* every length, and two frames of one block that the client encrypted:
\* counter, code and a payload byte, and the counter alone.
EncryptedBuffers ==
  { (IF k = C3 THEN << k, offset(k) + n >> ELSE << k, 0, offset(k) + n >>)
      \o [i \in 1..n |-> (7 * i + 3) % 256] :
      k \in {C3, C4}, n \in 0..MaxCiphertext }
  \cup { << C3, 13 >> \o Crypto_encrypt(CLIENT.encrypt, << 0, 169, 1 >>),
         << C3, 13 >> \o Crypto_encrypt(CLIENT.encrypt, << 0 >>) }

\* The options of the receiver: cipher, decryption, and whether the build
\* checks arithmetic overflow.
UntrustedOptions ==
  { Conn(NoCipher, NoCrypto, NoCrypto, None, FALSE),
    Conn(Some(XOR_CIPHER), NoCrypto, NoCrypto, None, FALSE),
    Conn(NoCipher, NoCrypto, Some(CLIENT), None, FALSE),
    Conn(NoCipher, NoCrypto, Some(CLIENT), None, TRUE),
    Conn(Some(XOR_CIPHER), NoCrypto, Some(SERVER), None, TRUE) }

InitUntrusted ==
  /\ \E c \in UntrustedOptions :
       /\ encrypt = c.enc /\ decrypt = c.dec
       /\ max_size = c.cap /\ overflow_checks = c.checks
  /\ input \in ShortBuffers \cup EncryptedBuffers
  /\ output = <<>>
  /\ result = NoCall
  /\ pre = NoPre
  /\ net = NoNet

\* from_bytes_ex(input, cipher, decryption)
ParseUntrusted ==
  /\ result = NoCall
  /\ LET Returned(r) ==
           result' = [op |-> "from_bytes_ex", tag |-> r.tag, kind |-> r.kind,
                      msg |-> r.msg, packet |-> r.packet, size |-> r.size,
                      counter |-> r.counter]
     IN  Returned(from_bytes_ex(input, decrypt.cipher, decrypt.crypto, overflow_checks))
  /\ pre' = [NoPre EXCEPT !.input = input]
  /\ UNCHANGED << codec, input, output, net >>

\* decode(input)
DecodeUntrusted ==
  /\ result = NoCall
  /\ Decode
  /\ UNCHANGED net

NextUntrusted == ParseUntrusted \/ DecodeUntrusted

SpecUntrusted == InitUntrusted /\ [][NextUntrusted]_vars

\* The buffer the call was given begins with a whole frame (as its size
\* field has it) whose size is below the header offset of its kind, or an
\* encrypted one, a decryption being given, whose size less the header
\* offset is not a multiple of 11.
StatedSize(b) == read_uint(b, bytes(b[1]))

UndersizedFrame(b) ==
  /\ Len(b) >= 1 /\ b[1] \in PacketKind
  /\ Len(b) >= 1 + bytes(b[1])
  /\ StatedSize(b) <= Len(b)
  /\ StatedSize(b) < offset(b[1])

RaggedFrame(b) ==
  /\ Len(b) >= 1 /\ b[1] \in PacketKind
  /\ Len(b) >= 1 + bytes(b[1])
  /\ StatedSize(b) <= Len(b)
  /\ is_encrypted(b[1]) /\ decrypt.crypto.some
  /\ StatedSize(b) >= offset(b[1])
  /\ (StatedSize(b) - offset(b[1])) % ENCRYPT_MOD # 0

\* C20: whatever the bytes, the cipher option and the decryption option,
\* from_bytes_ex and decode return (a packet, an error, or for decode None)
\* and never abort; from_bytes_ex reports as an error a frame whose size
\* field is smaller than the header offset of its kind, and an encrypted
\* frame whose ciphertext length is not a multiple of 11.
C20_ParsingIsTotal ==
  (result.op \in {"from_bytes_ex", "decode"}) =>
    /\ result.tag # "Panic"
    /\ (result.op = "from_bytes_ex"
        /\ (UndersizedFrame(pre.input) \/ RaggedFrame(pre.input))) =>
         result.tag = "Err"


(***************************************************************************)
(* Progress of the decoder on a whole frame (checked under SpecUntrusted). *)
(***************************************************************************)

\* The buffer begins with a kind and a size field, and holds at least as
\* many bytes as the size field states.
HoldsWholeFrame(b) ==
  /\ Len(b) >= 1 /\ b[1] \in PacketKind
  /\ Len(b) >= 1 + bytes(b[1])
  /\ StatedSize(b) <= Len(b)

\* C21: decode returns None on a non-empty buffer only while the buffer
\* holds fewer bytes than the size field of the leading frame states; once
\* it holds that many, decode returns a packet, consuming the frame, or an
\* error, for plaintext and for encrypted frames, also when the decrypted
\* content is empty or only the counter byte.
C21_NoStallOnWholeFrame ==
  (result.op = "decode" /\ pre.input # <<>>) =>
    /\ result.tag = "None" => ~HoldsWholeFrame(pre.input)
    /\ HoldsWholeFrame(pre.input) =>
         \/ result.tag = "Err"
         \/ /\ result.tag = "Some"
            /\ input = SubSeq(pre.input, StatedSize(pre.input) + 1, Len(pre.input))


(***************************************************************************)
(* The state after a decode error (checked under SpecWalk).                *)
(***************************************************************************)

\* C22: whenever decode returns an error, it has removed no bytes from the
\* input buffer and has changed neither the send counter nor the receive
\* counter.
C22_ErrorLeavesStateUnchanged ==
  (result.op = "decode" /\ result.tag = "Err") =>
    /\ input = pre.input
    /\ encrypt.counter = pre.send
    /\ decrypt.counter = pre.recv


(***************************************************************************)
(* SpecSize: PacketKind::from_size.  A usize is a record here: the number  *)
(* v itself, or, with top set, the number v below usize::MAX, so that the  *)
(* sizes next to the end of the range are in the model whatever the width  *)
(* of a usize.                                                             *)
(***************************************************************************)

\* Bound: how far around 0, 255, 65535 and usize::MAX the sizes go.
SizeSpan == 8

Usize(n) == [top |-> FALSE, v |-> n]
BelowMax(n) == [top |-> TRUE, v |-> n]

Sizes ==
  { Usize(n) : n \in (0..SizeSpan) \cup ((255 - SizeSpan)..(255 + SizeSpan))
                       \cup ((65535 - SizeSpan)..(65535 + SizeSpan)) }
  \cup { BelowMax(n) : n \in 0..SizeSpan }

\* size + offset on usize: past usize::MAX the sum panics in a build with
\* overflow checks and wraps around in a build without.
usize_add(size, off, checks) ==
  IF ~size.top THEN [tag |-> "Ok", v |-> Usize(size.v + off)]
  ELSE IF off <= size.v THEN [tag |-> "Ok", v |-> BelowMax(size.v - off)]
  ELSE IF checks THEN [tag |-> "Panic", v |-> Usize(0)]
  ELSE [tag |-> "Ok", v |-> Usize(off - size.v - 1)]

\* usize <= usize, the right side a number
usize_le(size, n) == ~size.top /\ size.v <= n

\* The comparisons of from_size (kind.rs 35-41) on the sum of line 33.
Choose(sum, lower, upper) ==
  IF sum.tag = "Panic" THEN [tag |-> "Panic", kind |-> 0]
  ELSE IF usize_le(sum.v, kind_max_size(lower)) THEN [tag |-> "Some", kind |-> lower]
  ELSE IF usize_le(sum.v, kind_max_size(upper)) THEN [tag |-> "Some", kind |-> upper]
  ELSE [tag |-> "None", kind |-> 0]

\* PacketKind::from_size
from_size(size, enc, checks) ==
  IF enc THEN Choose(usize_add(size, offset(C3), checks), C3, C4)
         ELSE Choose(usize_add(size, offset(C1), checks), C1, C2)

InitSize ==
  /\ \E size \in Sizes, enc \in BOOLEAN :
       pre = [op |-> "from_size", size |-> size, encrypted |-> enc]
  /\ overflow_checks \in BOOLEAN
  /\ encrypt = build(NoCipher, NoCrypto) /\ decrypt = build(NoCipher, NoCrypto)
  /\ max_size = None
  /\ output = <<>> /\ input = <<>>
  /\ result = NoCall
  /\ net = NoNet

\* from_size(size, encrypted)
FromSize ==
  /\ result = NoCall
  /\ LET Returned(r) == result' = [op |-> "from_size", tag |-> r.tag, kind |-> r.kind]
     IN  Returned(from_size(pre.size, pre.encrypted, overflow_checks))
  /\ UNCHANGED << codec, input, output, pre, net >>

NextSize == FromSize

SpecSize == InitSize /\ [][NextSize]_vars

\* A content of the size can be held by the kind: size + k.offset() <=
\* k.max_size(), as numbers.
Holds(k, size) == ~size.top /\ size.v + offset(k) <= kind_max_size(k)

\* C23: from_size returns Some(k) only for a kind of the requested class
\* that can hold the content (size + k.offset() <= k.max_size()); it
\* returns the kind with the one-byte size whenever that one can, otherwise
\* the kind with the two-byte size, and None exactly when neither can; so
\* also at the sizes around 255 and 65535.
C23_KindHoldsContent ==
  result.op = "from_size" =>
    LET lower == IF pre.encrypted THEN C3 ELSE C1
        upper == IF pre.encrypted THEN C4 ELSE C2
    IN  /\ result.tag \in {"Some", "None"}
        /\ result.tag = "Some" =>
             (result.kind \in {lower, upper} /\ Holds(result.kind, pre.size))
        /\ Holds(lower, pre.size) => (result.tag = "Some" /\ result.kind = lower)
        /\ (~Holds(lower, pre.size) /\ Holds(upper, pre.size)) =>
             (result.tag = "Some" /\ result.kind = upper)
        /\ (result.tag = "None") <=>
             (~Holds(lower, pre.size) /\ ~Holds(upper, pre.size))


(***************************************************************************)
(* SpecMessage: the identity of a message type.  A message type is its     *)
(* kind(), its CODE and its subcodes(); to_packet builds a packet for a    *)
(* value of the type and from_packet of a type is given the packet.  The   *)
(* serializer is not part of the repository: what it writes for the value  *)
(* is a sequence of bytes, and whether it reads the content back is either *)
(* outcome.                                                                *)
(***************************************************************************)

\* Bounds: the length of the longest subcode list and of the longest
\* content.
LongSubcodes == 253
LongContent == 251

MessageTypes ==
  { [kind |-> k, code |-> c, subcodes |-> sub] :
      k \in PacketKind, c \in {0, 244},
      sub \in { <<>>, << 6 >>, << 6, 7 >>, [i \in 1..LongSubcodes |-> 6] } }

Contents == { <<>>, << 6, 7 >>, Payload(LongContent) }

\* PacketType::identifier
identifier(T) == << T.code >> \o T.subcodes

\* to_packet of a value of T that the serializer writes as `content`: the
\* limit of the serializer is T::kind().max_size() - packet.len(), a usize
\* (past zero the difference panics in a build with overflow checks and
\* wraps around to no limit in a build without); a content over the limit
\* is the serializer's error.
to_packet(T, content, checks) ==
  LET packet == append(Packet_new(T.kind, T.code), T.subcodes)
  IN  IF len(packet) > kind_max_size(T.kind) /\ checks
        THEN [tag |-> "Panic", kind |-> "", msg |-> "", packet |-> NoPacket]
      ELSE IF len(packet) <= kind_max_size(T.kind)
              /\ Len(content) > kind_max_size(T.kind) - len(packet)
        THEN [tag |-> "Err", kind |-> "InvalidData", msg |-> "size limit",
              packet |-> NoPacket]
      ELSE [tag |-> "Ok", kind |-> "", msg |-> "", packet |-> append(packet, content)]

\* The identity check of from_packet (serialize.rs 65-72).
SameIdentity(T, packet) ==
  /\ packet.kind = T.kind /\ packet.code = T.code
  /\ Len(T.subcodes) <= Len(packet.data)
  /\ \A i \in 1..Len(T.subcodes) : T.subcodes[i] = packet.data[i]

\* T::from_packet(packet), the serializer reading the content back or not.
from_packet(T, packet, reads) ==
  IF SameIdentity(T, packet)
    THEN IF reads
           THEN [tag |-> "Ok", kind |-> "", msg |-> "",
                 content |-> SubSeq(packet.data, Len(T.subcodes) + 1, Len(packet.data))]
           ELSE [tag |-> "Err", kind |-> "InvalidData", msg |-> "deserialize",
                 content |-> <<>>]
    ELSE [tag |-> "Err", kind |-> "Other", msg |-> "codes differ from the type's",
          content |-> <<>>]

InitMessage ==
  /\ \E T \in MessageTypes, c \in Contents :
       pre = [op |-> "to_packet", type |-> T, content |-> c]
  /\ overflow_checks \in BOOLEAN
  /\ encrypt = build(NoCipher, NoCrypto) /\ decrypt = build(NoCipher, NoCrypto)
  /\ max_size = None
  /\ output = <<>> /\ input = <<>>
  /\ result = NoCall
  /\ net = NoNet

\* value.to_packet()
ToPacket ==
  /\ result = NoCall
  /\ LET Returned(r) ==
           result' = [op |-> "to_packet", tag |-> r.tag, kind |-> r.kind,
                      msg |-> r.msg, packet |-> r.packet]
     IN  Returned(to_packet(pre.type, pre.content, overflow_checks))
  /\ UNCHANGED << codec, input, output, pre, net >>

\* U::from_packet(&packet) of the packet to_packet returned.
FromPacket(U, reads) ==
  /\ result.op = "to_packet" /\ result.tag = "Ok"
  /\ LET Returned(r) ==
           result' = [op |-> "from_packet", tag |-> r.tag, kind |-> r.kind,
                      msg |-> r.msg, packet |-> result.packet, type |-> U,
                      content |-> r.content]
     IN  Returned(from_packet(U, result.packet, reads))
  /\ UNCHANGED << codec, input, output, pre, net >>

NextMessage ==
  \/ ToPacket
  \/ \E U \in MessageTypes, reads \in BOOLEAN : FromPacket(U, reads)

SpecMessage == InitMessage /\ [][NextMessage]_vars

\* from_packet rejected the packet for its identity.
Rejected ==
  /\ result.tag = "Err" /\ result.kind = "Other"
  /\ result.msg = "codes differ from the type's"

\* The packet differs from the packets of the type U: in kind, in code, in
\* a subcode byte, or its payload is shorter than the subcode list.
Differs(U, packet) ==
  \/ packet.kind # decrypted(U.kind)
  \/ packet.code # U.code
  \/ Len(packet.data) < Len(U.subcodes)
  \/ \E i \in 1..Len(U.subcodes) : packet.data[i] # U.subcodes[i]

\* C24: the packet to_packet built for a value of a type T, whatever kind
\* T declares, is not rejected by from_packet of T for its identity, and
\* carries T's code and T's subcodes as its leading payload bytes; a packet
\* that differs from the type of from_packet in kind, code or a subcode
\* byte, or whose payload is shorter than the subcode list, is rejected
\* with Other "codes differ from the type's".
C24_IdentityRoundTrip ==
  result.op = "from_packet" =>
    /\ result.type = pre.type => ~Rejected
    /\ result.packet.code = pre.type.code
    /\ SubSeq(result.packet.data, 1, Len(pre.type.subcodes)) = pre.type.subcodes
    /\ Differs(result.type, result.packet) => Rejected

==========================================================================
